---- MODULE Spec2Model ----
(***************************************************************************)
(* Bookstore inventory ingestion: the CSV parser worker (validateRow and   *)
(* the worker's main export), InventoryService.processCSV and              *)
(* InventoryService.processRow, run against a relational store with        *)
(* READ COMMITTED transactions, unique indexes and sequences.              *)
(*                                                                         *)
(* Text values are sequences of one-character strings.  JavaScript and SQL *)
(* scalars that are not text are encoded as tuples: Num(v), NaN, Null.     *)
(***************************************************************************)
EXTENDS Integers, Sequences, FiniteSets, TLC

(***************************************************************************)
(* Bounds of the model.                                                    *)
(***************************************************************************)
MaxCalls == 2
MaxRows == 2
MaxFaults == 1
MaxParseRows == 3

Calls == 1..MaxCalls

(***************************************************************************)
(* Scalars.                                                                *)
(***************************************************************************)
Null == <<"null">>
NaN == <<"NaN">>
Num(v) == <<"num", v>>
isNaN(n) == n = NaN
Val(n) == n[2]

(* Infinity and -Infinity: Inf(1) and Inf(-1), so that Val gives the sign *)
Inf(sign) == <<"Infinity", sign>>
isFinite(n) == n[1] = "num"

Empty == <<>>
Digits == {"0", "1", "2", "3", "4", "5", "6", "7", "8", "9"}
DigitVal(ch) == CASE ch = "0" -> 0 [] ch = "1" -> 1 [] ch = "2" -> 2
                  [] ch = "3" -> 3 [] ch = "4" -> 4 [] ch = "5" -> 5
                  [] ch = "6" -> 6 [] ch = "7" -> 7 [] ch = "8" -> 8
                  [] ch = "9" -> 9

(* String.prototype.trim, as used by mapValues *)
RECURSIVE TrimLeft(_)
TrimLeft(s) == IF s # Empty /\ Head(s) = " " THEN TrimLeft(Tail(s)) ELSE s
RECURSIVE TrimRight(_)
TrimRight(s) ==
    IF s # Empty /\ s[Len(s)] = " " THEN TrimRight(SubSeq(s, 1, Len(s) - 1)) ELSE s
Trim(s) == TrimRight(TrimLeft(s))

(* the longest prefix of s made of decimal digits *)
RECURSIVE DigitPrefix(_)
DigitPrefix(s) ==
    IF s # Empty /\ Head(s) \in Digits
    THEN <<Head(s)>> \o DigitPrefix(Tail(s))
    ELSE Empty
RECURSIVE DecValue(_)
DecValue(d) ==
    IF d = Empty THEN 0 ELSE 10 * DecValue(SubSeq(d, 1, Len(d) - 1)) + DigitVal(d[Len(d)])

(* parseInt(s, 10): leading white space, an optional sign, then digits;    *)
(* whatever follows the digits is ignored; NaN when there is no digit.     *)
parseInt(str) ==
    LET s == TrimLeft(str)
        neg == s # Empty /\ Head(s) = "-"
        signed == s # Empty /\ Head(s) \in {"-", "+"}
        body == IF signed THEN Tail(s) ELSE s
        d == DigitPrefix(body)
    IN  IF d = Empty THEN NaN
        ELSE Num(IF neg THEN 0 - DecValue(d) ELSE DecValue(d))

InfinityText == <<"I", "n", "f", "i", "n", "i", "t", "y">>
StartsWith(s, t) == Len(s) >= Len(t) /\ SubSeq(s, 1, Len(t)) = t

(* parseFloat(s) on the texts of the model, which are made of digits, "-", *)
(* " " and letters (no ".", no exponent): an optional sign, then the       *)
(* digits that follow it or the word Infinity; NaN otherwise.              *)
parseFloat(str) ==
    LET s == TrimLeft(str)
        neg == s # Empty /\ Head(s) = "-"
        signed == s # Empty /\ Head(s) \in {"-", "+"}
        body == IF signed THEN Tail(s) ELSE s
        ip == DigitPrefix(body)
    IN  IF ip # Empty THEN Num(IF neg THEN 0 - DecValue(ip) ELSE DecValue(ip))
        ELSE IF StartsWith(body, InfinityText) THEN Inf(IF neg THEN 0 - 1 ELSE 1)
        ELSE NaN

(***************************************************************************)
(* Rows of a CSV file.  A raw row is what csv-parser splits out of a line; *)
(* parseCSV trims every value (mapValues).                                 *)
(***************************************************************************)
Row(sn, sa, bn, pg, an, pr, lg) ==
    [store_name |-> sn, store_address |-> sa, book_name |-> bn, pages |-> pg,
     author_name |-> an, price |-> pr, logo |-> lg]

mapValues(row) ==
    [store_name |-> Trim(row.store_name), store_address |-> Trim(row.store_address),
     book_name |-> Trim(row.book_name), pages |-> Trim(row.pages),
     author_name |-> Trim(row.author_name), price |-> Trim(row.price),
     logo |-> Trim(row.logo)]

parseCSV(csvRows) == [k \in 1..Len(csvRows) |-> mapValues(csvRows[k])]

(* An error message: the "Row n: " prefix (Null when the message has       *)
(* none), the fixed text, and the value interpolated after it.             *)
Message(prefix, text, arg) == <<prefix, text, arg>>

requiredFields == <<"store_name", "book_name", "author_name", "price">>

(* a validator without the check of the price *)
validateRow_noPriceCheck(row, rowNumber) ==
    LET Missing(f) == row[f] = Empty
        missingFields == SelectSeq(requiredFields, Missing)
        pages == parseInt(row.pages)
    IN  IF Len(missingFields) > 0
        THEN [valid |-> FALSE,
              error |-> Message(Num(rowNumber), "Missing required fields", missingFields)]
        ELSE IF row.pages # Empty /\ (isNaN(pages) \/ Val(pages) < 1)
        THEN [valid |-> FALSE,
              error |-> Message(Num(rowNumber), "Invalid pages value", row.pages)]
        ELSE [valid |-> TRUE, error |-> Null]

(* validateRow(row, rowNumber): { valid, error } *)
validateRow(row, rowNumber) ==
    LET Missing(f) == row[f] = Empty
        missingFields == SelectSeq(requiredFields, Missing)
        price == parseFloat(row.price)
        pages == parseInt(row.pages)
    IN  IF Len(missingFields) > 0
        THEN [valid |-> FALSE,
              error |-> Message(Num(rowNumber), "Missing required fields", missingFields)]
        ELSE IF isNaN(price)
        THEN [valid |-> FALSE,
              error |-> Message(Num(rowNumber), "Invalid price value", row.price)]
        ELSE IF row.pages # Empty /\ (isNaN(pages) \/ Val(pages) < 1)
        THEN [valid |-> FALSE,
              error |-> Message(Num(rowNumber), "Invalid pages value", row.pages)]
        ELSE [valid |-> TRUE, error |-> Null]

(* row numbers counted from the header *)
RowNumber_fromHeader(i) == i + 1

(* const rowNumber = i + 2: row 1 is the header, i counts from 0 *)
RowNumber(i) == i + 2

(* The worker's main export: parse, then validate every row in file order. *)
RECURSIVE WorkerLoop(_, _, _, _)
WorkerLoop(rows, k, validatedRows, validationErrors) ==
    IF k >= Len(rows)
    THEN [validatedRows |-> validatedRows, validationErrors |-> validationErrors,
          totalParsed |-> Len(rows)]
    ELSE LET row == rows[k + 1]
             rowNumber == RowNumber(k)
             validation == validateRow(row, rowNumber)
         IN  IF validation.valid
             THEN WorkerLoop(rows, k + 1,
                     Append(validatedRows, [rowNumber |-> rowNumber, data |-> row]),
                     validationErrors)
             ELSE WorkerLoop(rows, k + 1, validatedRows,
                     Append(validationErrors,
                            [row |-> rowNumber, data |-> row, error |-> validation.error]))

csvParserWorker(csvRows) == WorkerLoop(parseCSV(csvRows), 0, <<>>, <<>>)

(***************************************************************************)
(* The texts the files of the model are made of.                           *)
(***************************************************************************)
NameMax == 255
DecimalPrecision == 10
DecimalScale == 2

S1 == <<"S", "1">>
S2 == <<"S", "2">>
B1 == <<"B", "1">>
AX == <<"X">>
AY == <<"Y">>
LongText == [k \in 1..(NameMax + 1) |-> "z"]

(* the rows a file of a lone upload is drawn from *)
Rows ==
    { Row(S1, Empty, B1, Empty, AX, <<"5">>, Empty),
      Row(<<" ", "S", "1">>, Empty, B1, <<"7">>, AX, <<"9", " ">>, Empty),
      Row(S1, <<"a">>, B1, Empty, AY, <<"5">>, <<"l">>),
      Row(S2, Empty, B1, <<"7">>, AX, <<"-", "5">>, Empty),
      Row(S1, Empty, B1, Empty, AX, <<"x">>, Empty),
      Row(S2, Empty, B1, Empty, Empty, <<"5">>, Empty),
      Row(S2, Empty, B1, <<"0">>, AX, <<"5">>, Empty),
      Row(LongText, Empty, B1, Empty, AX, <<"5">>, Empty),
      Row(S2, Empty, B1, Empty, LongText, <<"5">>, Empty),
      Row(S2, Empty, LongText, Empty, AX, <<"5">>, Empty),
      Row(S2, Empty, B1, Empty, AX, <<"1", "0", "0", "0", "0", "0", "0", "0", "0">>, Empty) }

(* the rows the files of overlapping uploads are drawn from: two rows for  *)
(* each of two stores, over one title by two authors                       *)
ConcRows ==
    { Row(S1, Empty, B1, Empty, AX, <<"5">>, Empty),
      Row(S1, <<"a">>, B1, Empty, AY, <<"5">>, <<"l">>),
      Row(S2, Empty, B1, Empty, AX, <<"5">>, Empty),
      Row(S2, Empty, B1, <<"7">>, AY, <<"5">>, Empty) }

(* the rows the files handed to the parser worker alone are drawn from:    *)
(* one row or more for every way validateRow decides                       *)
ParseRows ==
    { Row(S1, Empty, B1, Empty, AX, <<"5">>, Empty),
      Row(S1, <<"a">>, B1, <<"7">>, AX, <<"5">>, <<"l">>),
      Row(<<" ", "S", "1">>, Empty, B1, <<"7", " ">>, AX, <<" ", "5">>, Empty),
      Row(Empty, Empty, B1, Empty, AX, <<"5">>, Empty),
      Row(<<" ">>, Empty, B1, Empty, AX, <<"5">>, Empty),
      Row(S1, Empty, Empty, Empty, AX, <<"5">>, Empty),
      Row(S1, Empty, B1, Empty, Empty, Empty, Empty),
      Row(S1, Empty, B1, Empty, AX, <<" ", " ">>, Empty),
      Row(S1, Empty, B1, Empty, AX, <<"x">>, Empty),
      Row(S1, Empty, B1, Empty, AX, <<"5", "x">>, Empty),
      Row(S1, Empty, B1, Empty, AX, <<"-", "5">>, Empty),
      Row(S1, Empty, B1, Empty, AX, InfinityText, Empty),
      Row(S1, Empty, B1, <<"0">>, AX, <<"5">>, Empty),
      Row(S1, Empty, B1, <<"x">>, AX, <<"5">>, Empty),
      Row(S1, Empty, B1, <<"-", "1">>, AX, <<"5">>, Empty),
      Row(S1, Empty, B1, <<"7", "x">>, AX, <<"5">>, Empty) }

SeqsUpTo(S, n) == UNION {[1..k -> S] : k \in 0..n}
ParseFiles == SeqsUpTo(ParseRows, MaxParseRows)
Files(conc) == SeqsUpTo(IF conc THEN ConcRows ELSE Rows, MaxRows)

(***************************************************************************)
(* The relational store.  db holds the committed rows of the four tables,  *)
(* txn[c] the row images written by the open transaction of call c, seq    *)
(* the last value drawn from each id sequence (autoIncrement).             *)
(***************************************************************************)
VARIABLES db, seq, txn, overlap, pc, csv, parsed, idx, results, local, faults,
          db0, snap, begun, persisted, committed,
          response, malformed, unreachable, rep, pool

(* db0, snap, begun, persisted and committed record the history: the store *)
(* before any upload, the store and the results when the current row's     *)
(* transaction began, the rows whose transaction was begun, the number of  *)
(* rows each call's commits wrote, and the rows that committed.            *)
(* response is what the upload route answered to each call, malformed says *)
(* whether the text a call uploaded is one the CSV parser fails on,        *)
(* unreachable whether the database server has been lost, rep is the       *)
(* state of the report service, and pool the state of the parser pool.     *)
vars == <<db, seq, txn, overlap, pc, csv, parsed, idx, results, local, faults,
          db0, snap, begun, persisted, committed,
          response, malformed, unreachable, rep, pool>>

Tables == {"stores", "authors", "books", "store_books"}

StoreRow(id, name, address, logo) ==
    [id |-> id, name |-> name, address |-> address, logo |-> logo]
AuthorRow(id, name) == [id |-> id, name |-> name]
BookRow(id, name, pages, author_id) ==
    [id |-> id, name |-> name, pages |-> pages, author_id |-> author_id]
StoreBookRow(store_id, book_id, price, copies, sold_out) ==
    [store_id |-> store_id, book_id |-> book_id, price |-> price, copies |-> copies,
     sold_out |-> sold_out]

(* primary key and unique index of each table *)
Key(t, r) == IF t = "store_books" THEN <<r.store_id, r.book_id>> ELSE <<r.id>>
UniqueKey(t, r) ==
    CASE t = "stores" -> <<r.name>>
      [] t = "authors" -> <<r.name>>
      [] t = "books" -> <<r.name, r.author_id>>
      [] t = "store_books" -> <<r.store_id, r.book_id>>

NoWrites == [t \in Tables |-> {}]
EmptyDb == [t \in Tables |-> {}]

(* what a statement of call c's transaction reads: the committed rows,     *)
(* overlaid with the transaction's own writes (READ COMMITTED)             *)
View(c, t) ==
    {r \in db[t] : \A w \in txn[c].writes[t] : Key(t, w) # Key(t, r)} \cup txn[c].writes[t]

(* a row written by another open transaction is locked until it ends *)
LockedByOther(c, t, k) ==
    \E d \in Calls \ {c} : \E w \in txn[d].writes[t] : Key(t, w) = k

(* an INSERT that does not see the uncommitted rows of other transactions  *)
InsertWaits_never(c, t, u) == FALSE

(* an INSERT that waits for every other open transaction, whatever it      *)
(* wrote                                                                   *)
InsertWaits_anyOpen(c, t, u) == \E d \in Calls \ {c} : txn[d].open

(* an INSERT waits for another open transaction that inserted the same     *)
(* unique key and has not ended yet                                        *)
InsertWaits(c, t, u) ==
    /\ \A r \in db[t] : UniqueKey(t, r) # u
    /\ \E d \in Calls \ {c} : \E w \in txn[d].writes[t] : UniqueKey(t, w) = u

(* tables without their unique indexes *)
UniqueViolation_never(t, u) == FALSE

UniqueViolation(t, u) == \E r \in db[t] : UniqueKey(t, r) = u

Write(c, t, r) ==
    [txn EXCEPT ![c].writes[t] = {w \in @ : Key(t, w) # Key(t, r)} \cup {r}]

(* a commit that leaves in a table only the rows the transaction wrote, if *)
(* it wrote any                                                            *)
Applied_replaces(c) ==
    [t \in Tables |-> IF txn[c].writes[t] = {} THEN db[t] ELSE txn[c].writes[t]]

(* a commit that persists the position and loses the rest of what the     *)
(* transaction wrote                                                       *)
Applied_positionOnly(c) ==
    [t \in Tables |->
        IF t = "store_books"
        THEN {r \in db[t] : \A w \in txn[c].writes[t] : Key(t, w) # Key(t, r)}
                \cup txn[c].writes[t]
        ELSE db[t]]

Applied(c) ==
    [t \in Tables |->
        {r \in db[t] : \A w \in txn[c].writes[t] : Key(t, w) # Key(t, r)}
            \cup txn[c].writes[t]]

(* the current committed image of a row, as an UPDATE finds it *)
Current(c, t, k) == CHOOSE r \in View(c, t) : Key(t, r) = k

(***************************************************************************)
(* Initial state: no upload has started.  The store is empty, or holds one *)
(* position that was marked sold out (the sold_out column is written by    *)
(* nothing in the ingestion path, only reset by it).  Overlapping uploads   *)
(* start from the store that holds the position.                           *)
(***************************************************************************)
SeedDb ==
    [stores |-> {StoreRow(1, S1, Null, Null)},
     authors |-> {AuthorRow(1, AX)},
     books |-> {BookRow(1, B1, Null, 1)},
     store_books |-> {StoreBookRow(1, 1, Num(7), 3, TRUE)}]

(* A store of nine books by seven authors, with a second store: equal     *)
(* prices among the five priciest, authors with as many books, more than   *)
(* five of each, and sold out positions.                                   *)
BookName(i) == <<"B", CASE i = 2 -> "2" [] i = 3 -> "3" [] i = 4 -> "4" [] i = 5 -> "5"
                       [] i = 6 -> "6" [] i = 7 -> "7" [] i = 8 -> "8" [] i = 9 -> "9"
                       [] i = 10 -> "0">>
BigDb ==
    [stores |-> {StoreRow(1, S1, Null, Null), StoreRow(2, <<"S", "3">>, Null, Null)},
     authors |-> {AuthorRow(1, AX), AuthorRow(2, <<"A">>), AuthorRow(3, <<"B">>),
                  AuthorRow(4, <<"C">>), AuthorRow(5, <<"D">>), AuthorRow(6, <<"E">>),
                  AuthorRow(7, <<"F">>)},
     books |-> {BookRow(1, B1, Null, 1),
                BookRow(2, BookName(2), Null, 2), BookRow(3, BookName(3), Num(7), 2),
                BookRow(4, BookName(4), Null, 3), BookRow(5, BookName(5), Null, 3),
                BookRow(6, BookName(6), Null, 4), BookRow(7, BookName(7), Null, 5),
                BookRow(8, BookName(8), Null, 6), BookRow(9, BookName(9), Null, 7),
                BookRow(10, BookName(10), Null, 2)},
     store_books |-> {StoreBookRow(1, 1, Num(7), 3, TRUE),
                      StoreBookRow(1, 2, Num(25), 1, FALSE),
                      StoreBookRow(1, 3, Num(9), 2, FALSE),
                      StoreBookRow(1, 4, Num(25), 2, FALSE),
                      StoreBookRow(1, 5, Num(3), 3, FALSE),
                      StoreBookRow(1, 6, Num(8), 4, FALSE),
                      StoreBookRow(1, 7, Num(6), 2, FALSE),
                      StoreBookRow(1, 8, Num(2), 1, FALSE),
                      StoreBookRow(1, 9, Num(1), 1, FALSE),
                      StoreBookRow(1, 10, Num(99), 9, TRUE),
                      StoreBookRow(2, 2, Num(99), 9, FALSE)}]

NoCounts == [stores |-> 0, authors |-> 0, books |-> 0, inventory |-> 0, updates |-> 0]

(* the locals of processRow before they are assigned: rows that no table   *)
(* holds (ids start at 1)                                                  *)
NoLocal ==
    [store |-> StoreRow(0, Empty, Null, Null), storeCreated |-> FALSE,
     author |-> AuthorRow(0, Empty), authorCreated |-> FALSE,
     book |-> BookRow(0, Empty, Null, 0), bookCreated |-> FALSE, price |-> Null,
     existingInventory |-> StoreBookRow(0, 0, Null, 0, FALSE),
     error |-> Null]

(* the destructured result of the pool before the await returns *)
NoParse == [validatedRows |-> <<>>, validationErrors |-> <<>>, totalParsed |-> -1]

NewResults ==
    [processed |-> 0,
     created |-> [stores |-> 0, authors |-> 0, books |-> 0, inventory |-> 0],
     updated |-> [inventory |-> 0],
     errors |-> <<>>]

(* the route has not answered *)
NoResponse == [status |-> 0, success |-> FALSE]

(* the report service before any report was asked for *)
(* pc is the statement the report is at, op the method that was called;   *)
(* dbBooks and dbAuthors record the tables as the two queries read them.   *)
NoReport ==
    [pc |-> "idle", op |-> "none", storeId |-> 0, store |-> Null,
     topPriciestBooks |-> <<>>, topProlificAuthors |-> <<>>,
     dbBooks |-> EmptyDb, dbAuthors |-> EmptyDb]

(* csvParserPool: minThreads workers from the start, at most maxThreads,   *)
(* one task on a worker at a time, the tasks no worker is free for in a    *)
(* queue without a limit, in the order they were submitted.  busy holds    *)
(* the tasks that run, by the call that submitted them.                    *)
minThreads == 2
maxThreads == 4
NewPool == [threads |-> minThreads, busy |-> {}, queue |-> <<>>]

(* a pool that starts a worker for every task no worker is free for *)
run_spawns(p, task) ==
    IF Cardinality(p.busy) < p.threads
    THEN [p EXCEPT !.busy = @ \cup {task}]
    ELSE [p EXCEPT !.threads = @ + 1, !.busy = @ \cup {task}]

(* csvParserPool.run(task): on a free worker, else on a worker started for *)
(* it while there are fewer than maxThreads, else in the queue             *)
run(p, task) ==
    IF Cardinality(p.busy) < p.threads
    THEN [p EXCEPT !.busy = @ \cup {task}]
    ELSE IF p.threads < maxThreads
    THEN [p EXCEPT !.threads = @ + 1, !.busy = @ \cup {task}]
    ELSE [p EXCEPT !.queue = Append(@, task)]

(* the worker of a task has posted its result (or its error): it takes the *)
(* first task of the queue, if any                                         *)
Released(p, task) ==
    IF p.queue = <<>>
    THEN [p EXCEPT !.busy = @ \ {task}]
    ELSE [p EXCEPT !.busy = (@ \ {task}) \cup {Head(p.queue)}, !.queue = Tail(@)]

InitWith(conc) ==
    /\ overlap = conc
    /\ db \in IF conc THEN {SeedDb} ELSE {EmptyDb, SeedDb}
    /\ seq = [t \in {"stores", "authors", "books"} |-> Cardinality(db[t])]
    /\ txn = [c \in Calls |-> [open |-> FALSE, writes |-> NoWrites]]
    /\ pc = [c \in Calls |-> "idle"]
    /\ csv = [c \in Calls |-> <<>>]
    /\ parsed = [c \in Calls |-> NoParse]
    /\ idx = [c \in Calls |-> 0]
    /\ results = [c \in Calls |-> NewResults]
    /\ local = [c \in Calls |-> NoLocal]
    /\ faults = 0
    /\ db0 = db
    /\ snap = [c \in Calls |-> [db |-> EmptyDb, results |-> NewResults]]
    /\ begun = {}
    /\ persisted = [c \in Calls |-> NoCounts]
    /\ committed = {}
    /\ response = [c \in Calls |-> NoResponse]
    /\ malformed = [c \in Calls |-> FALSE]
    /\ unreachable = FALSE
    /\ rep = NoReport
    /\ pool = NewPool

Init == InitWith(FALSE)
InitConc == InitWith(TRUE)

(***************************************************************************)
(* processCSV                                                              *)
(***************************************************************************)
Running(c) == pc[c] \notin {"idle", "done", "failed", "rejected"}

(* a route that reports failure whenever a row failed *)
UploadResponse_anyError(res) ==
    LET hasErrors == Len(res.errors) > 0
    IN  IF hasErrors
        THEN [status |-> 400, success |-> FALSE,
              message |-> "Failed to process any rows from the CSV file.", results |-> res]
        ELSE [status |-> 200, success |-> TRUE,
              message |-> "CSV processed successfully.", results |-> res]

(* the upload route after processCSV returned its results *)
UploadResponse(res) ==
    LET hasErrors == Len(res.errors) > 0
        hasSuccesses == res.processed > 0
    IN  IF ~hasSuccesses /\ hasErrors
        THEN [status |-> 400, success |-> FALSE,
              message |-> "Failed to process any rows from the CSV file.", results |-> res]
        ELSE [status |-> 200, success |-> TRUE,
              message |-> IF hasErrors THEN "CSV processed with some errors."
                          ELSE "CSV processed successfully.",
              results |-> res]

(* processCSV returns when its loop is over, and the route answers *)
Finish(c) ==
    response' = [response EXCEPT ![c] =
                    IF pc'[c] = "done" THEN UploadResponse(results'[c]) ELSE @]

(* a loop that takes the valid rows from the last to the first *)
Cur_fromLast(c) == parsed[c].validatedRows[Len(parsed[c].validatedRows) + 1 - idx[c]]

(* the row being reconciled by call c *)
Cur(c) == parsed[c].validatedRows[idx[c]]
row(c) == Cur(c).data

(* processCSV up to the await of the pool: fresh results, the buffer is    *)
(* handed to the parser pool.                                              *)
processCSV(c) ==
    /\ pc[c] = "idle"
    /\ \A d \in Calls : d < c => pc[d] # "idle"
    /\ overlap \/ \A d \in Calls \ {c} : ~Running(d)
    /\ \E fileBuffer \in Files(overlap) : csv' = [csv EXCEPT ![c] = fileBuffer]
    /\ results' = [results EXCEPT ![c] = NewResults]
    /\ pc' = [pc EXCEPT ![c] = "parsing"]
    /\ pool' = run(pool, c)
    /\ UNCHANGED <<db, seq, txn, overlap, parsed, idx, local, faults, db0, snap, begun, persisted, committed,
                   response, malformed, unreachable, rep>>

(* the position of the for loop over validatedRows after k rows *)
LoopPc(c, p, k) == IF k > Len(p.validatedRows) THEN "done" ELSE "begin"

(* the worker's result arrives: the validation errors are pushed, the loop *)
(* over the valid rows starts.                                             *)
WorkerReturn(c) ==
    /\ pc[c] = "parsing"
    /\ ~malformed[c]
    /\ LET p == csvParserWorker(csv[c])
       IN  /\ parsed' = [parsed EXCEPT ![c] = p]
           /\ results' = [results EXCEPT ![c].errors = @ \o p.validationErrors]
           /\ idx' = [idx EXCEPT ![c] = 1]
           /\ pc' = [pc EXCEPT ![c] = LoopPc(c, p, 1)]
    /\ Finish(c)
    /\ c \in pool.busy
    /\ pool' = Released(pool, c)
    /\ UNCHANGED <<db, seq, txn, overlap, csv, local, faults, db0, snap, begun, persisted,
                   committed, malformed, unreachable, rep>>

(***************************************************************************)
(* processRow, one action per awaited statement; the synchronous code that *)
(* follows an await belongs to the action of that await.                   *)
(***************************************************************************)
Begin(c) ==
    /\ pc[c] = "begin"
    /\ ~unreachable
    /\ txn' = [txn EXCEPT ![c] = [open |-> TRUE, writes |-> NoWrites]]
    /\ local' = [local EXCEPT ![c] = NoLocal]
    /\ snap' = [snap EXCEPT ![c] = [db |-> db, results |-> results[c]]]
    /\ begun' = begun \cup {<<c, Cur(c).rowNumber>>}
    /\ pc' = [pc EXCEPT ![c] = "store_find"]
    /\ UNCHANGED <<db, seq, overlap, csv, parsed, idx, results, faults, db0, persisted,
                   committed,
                   response, malformed, unreachable, rep, pool>>

(* a statement failed: the catch block rolls back and rethrows *)
Throw(c, loc, message) ==
    /\ local' = [loc EXCEPT ![c].error = message]
    /\ pc' = [pc EXCEPT ![c] = "rollback"]

NeedsLogo(c, store) == row(c).logo # Empty /\ row(c).logo # store.logo
(* an update that takes an empty address for a new one *)
NeedsAddress_evenEmpty(c, store) == row(c).store_address # store.address

NeedsAddress(c, store) ==
    row(c).store_address # Empty /\ row(c).store_address # store.address

(* the code after the store was found (storeCreated = false) *)
StoreFoundPc(c, store) ==
    IF NeedsLogo(c, store) THEN "store_logo"
    ELSE IF NeedsAddress(c, store) THEN "store_address"
    ELSE "author_find"

OrNull(text) == IF text = Empty THEN Null ELSE text

(* Store.findOrCreate: the find *)
StoreFind(c) ==
    /\ pc[c] = "store_find"
    /\ LET found == {r \in View(c, "stores") : r.name = row(c).store_name}
       IN  IF found # {}
           THEN LET store == CHOOSE r \in found : TRUE
                IN  /\ local' = [local EXCEPT ![c].store = store,
                                              ![c].storeCreated = FALSE]
                    /\ pc' = [pc EXCEPT ![c] = StoreFoundPc(c, store)]
           ELSE /\ pc' = [pc EXCEPT ![c] = "store_create"]
                /\ UNCHANGED local
    /\ UNCHANGED <<db, seq, txn, overlap, csv, parsed, idx, results, faults, db0, snap, begun,
                   persisted, committed,
                   response, malformed, unreachable, rep, pool>>

(* Store.findOrCreate: the create, and the find again after a unique       *)
(* violation                                                               *)
StoreCreate(c) ==
    /\ pc[c] = "store_create"
    /\ ~InsertWaits(c, "stores", <<row(c).store_name>>)
    /\ seq' = [seq EXCEPT !.stores = @ + 1]
    /\ LET store == StoreRow(seq.stores + 1, row(c).store_name,
                             OrNull(row(c).store_address), OrNull(row(c).logo))
       IN  IF UniqueViolation("stores", <<row(c).store_name>>)
           THEN LET other == CHOOSE r \in db.stores : r.name = row(c).store_name
                IN  /\ local' = [local EXCEPT ![c].store = other,
                                              ![c].storeCreated = FALSE]
                    /\ pc' = [pc EXCEPT ![c] = StoreFoundPc(c, other)]
                    /\ UNCHANGED <<txn, results>>
           ELSE IF Len(store.name) > NameMax
           THEN /\ Throw(c, local, Message(Null, "value too long", Empty))
                /\ UNCHANGED <<txn, results>>
           ELSE /\ txn' = Write(c, "stores", store)
                /\ local' = [local EXCEPT ![c].store = store, ![c].storeCreated = TRUE]
                /\ results' = [results EXCEPT ![c].created.stores = @ + 1]
                /\ pc' = [pc EXCEPT ![c] = "author_find"]
    /\ UNCHANGED <<db, overlap, csv, parsed, idx, faults, db0, snap, begun, persisted, committed,
                   response, malformed, unreachable, rep, pool>>

(* store.update({ logo }) *)
StoreLogo(c) ==
    /\ pc[c] = "store_logo"
    /\ ~LockedByOther(c, "stores", <<local[c].store.id>>)
    /\ LET cur == Current(c, "stores", <<local[c].store.id>>)
       IN  txn' = Write(c, "stores", [cur EXCEPT !.logo = row(c).logo])
    /\ pc' = [pc EXCEPT ![c] =
                IF NeedsAddress(c, local[c].store) THEN "store_address" ELSE "author_find"]
    /\ local' = [local EXCEPT ![c].store.logo = row(c).logo]
    /\ UNCHANGED <<db, seq, overlap, csv, parsed, idx, results, faults, db0, snap, begun,
                   persisted, committed,
                   response, malformed, unreachable, rep, pool>>

(* store.update({ address }) *)
StoreAddress(c) ==
    /\ pc[c] = "store_address"
    /\ ~LockedByOther(c, "stores", <<local[c].store.id>>)
    /\ LET cur == Current(c, "stores", <<local[c].store.id>>)
       IN  txn' = Write(c, "stores", [cur EXCEPT !.address = row(c).store_address])
    /\ pc' = [pc EXCEPT ![c] = "author_find"]
    /\ local' = [local EXCEPT ![c].store.address = row(c).store_address]
    /\ UNCHANGED <<db, seq, overlap, csv, parsed, idx, results, faults, db0, snap, begun,
                   persisted, committed,
                   response, malformed, unreachable, rep, pool>>

(* Author.findOrCreate: the find *)
AuthorFind(c) ==
    /\ pc[c] = "author_find"
    /\ LET found == {r \in View(c, "authors") : r.name = row(c).author_name}
       IN  IF found # {}
           THEN /\ local' = [local EXCEPT ![c].author = CHOOSE r \in found : TRUE,
                                          ![c].authorCreated = FALSE]
                /\ pc' = [pc EXCEPT ![c] = "book_find"]
           ELSE /\ pc' = [pc EXCEPT ![c] = "author_create"]
                /\ UNCHANGED local
    /\ UNCHANGED <<db, seq, txn, overlap, csv, parsed, idx, results, faults, db0, snap, begun,
                   persisted, committed,
                   response, malformed, unreachable, rep, pool>>

(* Author.findOrCreate: the create, and the find again after a unique      *)
(* violation                                                               *)
AuthorCreate(c) ==
    /\ pc[c] = "author_create"
    /\ ~InsertWaits(c, "authors", <<row(c).author_name>>)
    /\ seq' = [seq EXCEPT !.authors = @ + 1]
    /\ LET author == AuthorRow(seq.authors + 1, row(c).author_name)
       IN  IF UniqueViolation("authors", <<row(c).author_name>>)
           THEN /\ local' = [local EXCEPT
                               ![c].author = CHOOSE r \in db.authors :
                                                r.name = row(c).author_name,
                               ![c].authorCreated = FALSE]
                /\ pc' = [pc EXCEPT ![c] = "book_find"]
                /\ UNCHANGED <<txn, results>>
           ELSE IF Len(author.name) > NameMax
           THEN /\ Throw(c, local, Message(Null, "value too long", Empty))
                /\ UNCHANGED <<txn, results>>
           ELSE /\ txn' = Write(c, "authors", author)
                /\ local' = [local EXCEPT ![c].author = author,
                                          ![c].authorCreated = TRUE]
                /\ results' = [results EXCEPT ![c].created.authors = @ + 1]
                /\ pc' = [pc EXCEPT ![c] = "book_find"]
    /\ UNCHANGED <<db, overlap, csv, parsed, idx, faults, db0, snap, begun, persisted, committed,
                   response, malformed, unreachable, rep, pool>>

(* a price check that lets negative prices through *)
PriceRejected_nanOnly(price) == isNaN(price)

(* isNaN(price) || price < 0 *)
PriceRejected(price) == isNaN(price) \/ Val(price) < 0

(* the code from "if (bookCreated)" to the price check: the counter, then  *)
(* parseFloat and the throw on a NaN or negative price                     *)
AfterBook(c, loc, created) ==
    LET price == parseFloat(row(c).price)
    IN  /\ results' = [results EXCEPT ![c].created.books =
                          IF created THEN @ + 1 ELSE @]
        /\ IF PriceRejected(price)
           THEN Throw(c, loc, Message(Null, "Invalid price value", row(c).price))
           ELSE /\ local' = [loc EXCEPT ![c].price = price]
                /\ pc' = [pc EXCEPT ![c] = "inv_find"]

(* an update that parses pages even when the row has none *)
NeedsPages_evenEmpty(c, book) == parseInt(row(c).pages) # book.pages

NeedsPages(c, book) ==
    row(c).pages # Empty /\ parseInt(row(c).pages) # book.pages

BookFound(c, book) ==
    LET loc == [local EXCEPT ![c].book = book, ![c].bookCreated = FALSE]
    IN  IF NeedsPages(c, book)
        THEN /\ local' = loc
             /\ pc' = [pc EXCEPT ![c] = "book_update"]
             /\ UNCHANGED results
        ELSE AfterBook(c, loc, FALSE)

(* Book.findOrCreate: the find *)
BookFind(c) ==
    /\ pc[c] = "book_find"
    /\ LET found == {r \in View(c, "books") :
                        r.name = row(c).book_name /\ r.author_id = local[c].author.id}
       IN  IF found # {}
           THEN BookFound(c, CHOOSE r \in found : TRUE)
           ELSE /\ pc' = [pc EXCEPT ![c] = "book_create"]
                /\ UNCHANGED <<local, results>>
    /\ UNCHANGED <<db, seq, txn, overlap, csv, parsed, idx, faults, db0, snap, begun, persisted, committed,
                   response, malformed, unreachable, rep, pool>>

(* Book.findOrCreate: the create, and the find again after a unique        *)
(* violation                                                               *)
BookCreate(c) ==
    /\ pc[c] = "book_create"
    /\ ~InsertWaits(c, "books", <<row(c).book_name, local[c].author.id>>)
    /\ seq' = [seq EXCEPT !.books = @ + 1]
    /\ LET book == BookRow(seq.books + 1, row(c).book_name,
                           IF row(c).pages # Empty THEN parseInt(row(c).pages) ELSE Null,
                           local[c].author.id)
       IN  IF UniqueViolation("books", <<book.name, book.author_id>>)
           THEN /\ BookFound(c, CHOOSE r \in db.books :
                                   r.name = book.name /\ r.author_id = book.author_id)
                /\ UNCHANGED txn
           ELSE IF Len(book.name) > NameMax
           THEN /\ Throw(c, local, Message(Null, "value too long", Empty))
                /\ UNCHANGED <<txn, results>>
           ELSE /\ txn' = Write(c, "books", book)
                /\ AfterBook(c, [local EXCEPT ![c].book = book, ![c].bookCreated = TRUE],
                             TRUE)
    /\ UNCHANGED <<db, overlap, csv, parsed, idx, faults, db0, snap, begun, persisted, committed,
                   response, malformed, unreachable, rep, pool>>

(* book.update({ pages }) *)
BookUpdate(c) ==
    /\ pc[c] = "book_update"
    /\ ~LockedByOther(c, "books", <<local[c].book.id>>)
    /\ LET cur == Current(c, "books", <<local[c].book.id>>)
           pages == parseInt(row(c).pages)
       IN  /\ txn' = Write(c, "books", [cur EXCEPT !.pages = pages])
           /\ AfterBook(c, [local EXCEPT ![c].book.pages = pages], FALSE)
    /\ UNCHANGED <<db, seq, overlap, csv, parsed, idx, faults, db0, snap, begun, persisted, committed,
                   response, malformed, unreachable, rep, pool>>

(* StoreBook.findOne *)
InvFind(c) ==
    /\ pc[c] = "inv_find"
    /\ LET found == {r \in View(c, "store_books") :
                        r.store_id = local[c].store.id /\ r.book_id = local[c].book.id}
       IN  IF found # {}
           THEN /\ local' = [local EXCEPT ![c].existingInventory = CHOOSE r \in found : TRUE]
                /\ pc' = [pc EXCEPT ![c] = "inv_update"]
           ELSE /\ pc' = [pc EXCEPT ![c] = "inv_create"]
                /\ UNCHANGED local
    /\ UNCHANGED <<db, seq, txn, overlap, csv, parsed, idx, results, faults, db0, snap, begun,
                   persisted, committed,
                   response, malformed, unreachable, rep, pool>>

(* DECIMAL(10, 2): at most 10 - 2 digits before the decimal point *)
RECURSIVE Pow10(_)
Pow10(n) == IF n = 0 THEN 1 ELSE 10 * Pow10(n - 1)
Overflows(price) ==
    LET limit == Pow10(DecimalPrecision - DecimalScale)
    IN  ~isFinite(price) \/ Val(price) >= limit \/ 0 - Val(price) >= limit

(* the validators of the StoreBook model: price min 0 *)
PriceInvalid(price) == Val(price) < 0

(* the update without the reset of sold_out *)
UpdatedInventory_keepsSoldOut(cur, existingInventory, price) ==
    [cur EXCEPT !.copies = existingInventory.copies + 1, !.price = price]

(* the update setting copies to 1 instead of incrementing it *)
UpdatedInventory_setsOne(cur, existingInventory, price) ==
    [cur EXCEPT !.copies = 1, !.price = price, !.sold_out = FALSE]

(* the values of existingInventory.update: copies + 1, the latest price,   *)
(* sold_out reset                                                          *)
UpdatedInventory(cur, existingInventory, price) ==
    [cur EXCEPT !.copies = existingInventory.copies + 1,
                !.price = price,
                !.sold_out = FALSE]

(* the create taking the price for the number of copies *)
NewInventory_noCopy(store_id, book_id, price) ==
    StoreBookRow(store_id, book_id, price, 0, FALSE)

(* the values of StoreBook.create *)
NewInventory(store_id, book_id, price) == StoreBookRow(store_id, book_id, price, 1, FALSE)

(* existingInventory.update({ copies, price, sold_out }) *)
InvUpdate(c) ==
    /\ pc[c] = "inv_update"
    /\ LET existingInventory == local[c].existingInventory
           k == <<existingInventory.store_id, existingInventory.book_id>>
       IN  /\ ~LockedByOther(c, "store_books", k)
           /\ IF PriceInvalid(local[c].price)
              THEN /\ Throw(c, local, Message(Null, "Price cannot be negative", Empty))
                   /\ UNCHANGED <<txn, results>>
              ELSE IF Overflows(local[c].price)
              THEN /\ Throw(c, local, Message(Null, "numeric field overflow", Empty))
                   /\ UNCHANGED <<txn, results>>
              ELSE /\ txn' = Write(c, "store_books",
                                UpdatedInventory(Current(c, "store_books", k),
                                                 existingInventory, local[c].price))
                   /\ results' = [results EXCEPT ![c].updated.inventory = @ + 1]
                   /\ pc' = [pc EXCEPT ![c] = "commit"]
                   /\ UNCHANGED local
    /\ UNCHANGED <<db, seq, overlap, csv, parsed, idx, faults, db0, snap, begun, persisted, committed,
                   response, malformed, unreachable, rep, pool>>

(* StoreBook.create({ store_id, book_id, price, copies: 1, sold_out: false }) *)
InvCreate(c) ==
    /\ pc[c] = "inv_create"
    /\ LET sb == NewInventory(local[c].store.id, local[c].book.id, local[c].price)
           k == <<sb.store_id, sb.book_id>>
       IN  /\ ~InsertWaits(c, "store_books", k)
           /\ IF PriceInvalid(sb.price)
              THEN /\ Throw(c, local, Message(Null, "Price cannot be negative", Empty))
                   /\ UNCHANGED <<txn, results>>
              ELSE IF Overflows(sb.price)
              THEN /\ Throw(c, local, Message(Null, "numeric field overflow", Empty))
                   /\ UNCHANGED <<txn, results>>
              ELSE IF UniqueViolation("store_books", k)
              THEN /\ Throw(c, local, Message(Null, "Validation error", Empty))
                   /\ UNCHANGED <<txn, results>>
              ELSE /\ txn' = Write(c, "store_books", sb)
                   /\ results' = [results EXCEPT ![c].created.inventory = @ + 1]
                   /\ pc' = [pc EXCEPT ![c] = "commit"]
                   /\ UNCHANGED local
    /\ UNCHANGED <<db, seq, overlap, csv, parsed, idx, faults, db0, snap, begun, persisted, committed,
                   response, malformed, unreachable, rep, pool>>

(* the rows of table t that the transaction of call c inserted *)
Inserted(c, t) == {w \in txn[c].writes[t] : \A r \in db[t] : Key(t, r) # Key(t, w)}
Updated(c, t) == txn[c].writes[t] \ Inserted(c, t)

Closed == [open |-> FALSE, writes |-> NoWrites]

(* a rollback that keeps the writes made so far, as without a transaction *)
RolledBack_keepsWrites(c) == Applied(c)

(* a failure that leaves the loop over the rows *)
AfterFailure_aborts(c) == "done"

(* transaction.rollback(): the writes of the transaction are discarded *)
RolledBack(c) == db

(* the catch of processCSV: the row's error is recorded, the loop goes on *)
AfterFailure(c) == LoopPc(c, parsed[c], idx[c] + 1)

(* an entry that numbers the row by its place among the valid rows *)
RowError_validIndex(c, message) == [row |-> idx[c] + 1, data |-> row(c), error |-> message]

RowError(c, message) == [row |-> Cur(c).rowNumber, data |-> row(c), error |-> message]

(* transaction.commit(), then processCSV counts the row and takes the next *)
(* one.  When the server answers the COMMIT with an error the transaction  *)
(* is aborted; the catch block's rollback() then throws, the transaction   *)
(* being finished, and that error is the one processCSV records.           *)
Commit(c) ==
    /\ pc[c] = "commit"
    /\ \E ok \in IF faults < MaxFaults THEN BOOLEAN ELSE {TRUE} :
          IF ok
          THEN /\ db' = Applied(c)
               /\ results' = [results EXCEPT ![c].processed = @ + 1]
               /\ persisted' = [persisted EXCEPT ![c] =
                     [stores |-> @.stores + Cardinality(Inserted(c, "stores")),
                      authors |-> @.authors + Cardinality(Inserted(c, "authors")),
                      books |-> @.books + Cardinality(Inserted(c, "books")),
                      inventory |-> @.inventory + Cardinality(Inserted(c, "store_books")),
                      updates |-> @.updates + Cardinality(Updated(c, "store_books"))]]
               /\ committed' = committed \cup {<<c, Cur(c).rowNumber>>}
               /\ pc' = [pc EXCEPT ![c] = LoopPc(c, parsed[c], idx[c] + 1)]
               /\ UNCHANGED faults
          ELSE /\ db' = RolledBack(c)
               /\ results' = [results EXCEPT ![c].errors =
                     Append(@, RowError(c, Message(Null,
                        "Transaction cannot be rolled back because it has been finished",
                        Empty)))]
               /\ faults' = faults + 1
               /\ pc' = [pc EXCEPT ![c] = AfterFailure(c)]
               /\ UNCHANGED <<persisted, committed>>
    /\ txn' = [txn EXCEPT ![c] = Closed]
    /\ idx' = [idx EXCEPT ![c] = @ + 1]
    /\ Finish(c)
    /\ UNCHANGED <<seq, overlap, csv, parsed, local, db0, snap, begun,
                   malformed, unreachable, rep, pool>>

(* transaction.rollback() and the rethrow; processCSV records the row's    *)
(* error and takes the next row                                            *)
Rollback(c) ==
    /\ pc[c] = "rollback"
    /\ db' = RolledBack(c)
    /\ txn' = [txn EXCEPT ![c] = Closed]
    /\ results' = [results EXCEPT ![c].errors = Append(@, RowError(c, local[c].error))]
    /\ idx' = [idx EXCEPT ![c] = @ + 1]
    /\ pc' = [pc EXCEPT ![c] = AfterFailure(c)]
    /\ Finish(c)
    /\ UNCHANGED <<seq, overlap, csv, parsed, local, faults, db0, snap, begun, persisted,
                   committed, malformed, unreachable, rep, pool>>

(***************************************************************************)
(* The ways an upload fails as a whole, and the loss of the database.      *)
(***************************************************************************)
(* the upload route returns early: no file, or a file of size 0 *)
UploadRejected(c) ==
    /\ pc[c] = "idle"
    /\ \A d \in Calls : d < c => pc[d] # "idle"
    /\ overlap \/ \A d \in Calls \ {c} : ~Running(d)
    /\ \E error \in {"No file uploaded. Please upload a CSV file.",
                      "Uploaded file is empty."} :
          response' = [response EXCEPT ![c] =
                          [status |-> 400, success |-> FALSE, error |-> error]]
    /\ pc' = [pc EXCEPT ![c] = "rejected"]
    /\ UNCHANGED <<db, seq, txn, overlap, csv, parsed, idx, results, local, faults, db0,
                   snap, begun, persisted, committed, malformed, unreachable, rep, pool>>

(* processCSV with a text the CSV parser's stream fails on: the parser     *)
(* pool is handed the buffer, no row comes out of it                       *)
UploadMalformed(c) ==
    /\ pc[c] = "idle"
    /\ \A d \in Calls : d < c => pc[d] # "idle"
    /\ overlap \/ \A d \in Calls \ {c} : ~Running(d)
    /\ csv' = [csv EXCEPT ![c] = <<>>]
    /\ malformed' = [malformed EXCEPT ![c] = TRUE]
    /\ results' = [results EXCEPT ![c] = NewResults]
    /\ pc' = [pc EXCEPT ![c] = "parsing"]
    /\ pool' = run(pool, c)
    /\ UNCHANGED <<db, seq, txn, overlap, parsed, idx, local, faults, db0, snap, begun,
                   persisted, committed, response, unreachable, rep>>

(* a processCSV that catches the parser's error and returns its results *)
ParseFailure_swallowed(c) == [pc |-> "done", response |-> UploadResponse(results[c])]

(* what becomes of the call when the await of the parser pool throws *)
ParseFailure(c) ==
    [pc |-> "failed",
     response |-> [status |-> 500, success |-> FALSE, error |-> "parse error"]]

(* the worker's promise is rejected with the stream's error: the await in  *)
(* processCSV throws, nothing catches it before the route, which hands it  *)
(* to the error handler                                                    *)
WorkerRejects(c) ==
    /\ pc[c] = "parsing"
    /\ malformed[c]
    /\ pc' = [pc EXCEPT ![c] = ParseFailure(c).pc]
    /\ response' = [response EXCEPT ![c] = ParseFailure(c).response]
    /\ c \in pool.busy
    /\ pool' = Released(pool, c)
    /\ UNCHANGED <<db, seq, txn, overlap, csv, parsed, idx, results, local, faults, db0,
                   snap, begun, persisted, committed, malformed, unreachable, rep>>

(* the database server is lost, while no transaction is open and an upload *)
(* is between two rows                                                     *)
StoreLost ==
    /\ ~unreachable
    /\ \A c \in Calls : ~txn[c].open
    /\ \E c \in Calls : pc[c] = "begin"
    /\ unreachable' = TRUE
    /\ UNCHANGED <<db, seq, txn, overlap, pc, csv, parsed, idx, results, local, faults, db0,
                   snap, begun, persisted, committed, response, malformed, rep, pool>>

(* sequelize.transaction() is rejected with a connection error; it is the  *)
(* try of processCSV's loop that catches it, as any error of processRow    *)
AfterConnectionError(c) == AfterFailure(c)

BeginFails(c) ==
    /\ pc[c] = "begin"
    /\ unreachable
    /\ results' = [results EXCEPT ![c].errors =
                      Append(@, RowError(c, Message(Null, "ConnectionError", Empty)))]
    /\ idx' = [idx EXCEPT ![c] = @ + 1]
    /\ pc' = [pc EXCEPT ![c] = AfterConnectionError(c)]
    /\ Finish(c)
    /\ UNCHANGED <<db, seq, txn, overlap, csv, parsed, local, faults, db0, snap, begun,
                   persisted, committed, malformed, unreachable, rep, pool>>

(* a statement of processRow (with the bookkeeping of processCSV's loop    *)
(* that follows its return)                                                *)
processRow(c) ==
        \/ Begin(c)
        \/ StoreFind(c)
        \/ StoreCreate(c)
        \/ StoreLogo(c)
        \/ StoreAddress(c)
        \/ AuthorFind(c)
        \/ AuthorCreate(c)
        \/ BookFind(c)
        \/ BookCreate(c)
        \/ BookUpdate(c)
        \/ InvFind(c)
        \/ InvUpdate(c)
        \/ InvCreate(c)
        \/ Commit(c)
        \/ Rollback(c)

(* a step of processCSV after the call: the worker's return, a statement   *)
(* of processRow                                                           *)
Reconcile(c) == WorkerReturn(c) \/ processRow(c)

(* a step of the upload c *)
Ingest(c) == processCSV(c) \/ Reconcile(c)

Next == \E c \in Calls : Ingest(c)

Spec == Init /\ [][Next]_vars
SpecConc == InitConc /\ [][Next]_vars

(* one upload, with the ways it fails as a whole and the loss of the       *)
(* database                                                                *)
OneCall == 1..1

(* the rows the file of an upload that runs beside a report is drawn from  *)
ReportRows ==
    { Row(S1, <<"a">>, B1, <<"7">>, AX, <<"9">>, <<"l">>),
      Row(S1, Empty, B1, Empty, AY, <<"5">>, Empty),
      Row(S2, Empty, B1, Empty, AX, <<"-", "5">>, Empty) }
ReportFiles == SeqsUpTo(ReportRows, MaxRows)
NextUpload ==
    \/ \E c \in OneCall :
          \/ Ingest(c)
          \/ UploadRejected(c)
          \/ UploadMalformed(c)
          \/ WorkerRejects(c)
          \/ BeginFails(c)
    \/ StoreLost

SpecUpload == Init /\ [][NextUpload]_vars

(***************************************************************************)
(* ReportService: findByPk and the two ranking queries.  Each query reads  *)
(* the committed rows at the time it runs; rows that compare equal under   *)
(* its ORDER BY come in any order.                                         *)
(***************************************************************************)
ReportLimit == 5
ReportIds == 1..3

Least(a, b) == IF a < b THEN a ELSE b
Limit(rows) == SubSeq(rows, 1, Least(Len(rows), ReportLimit))

findByPk(stores, storeId) == {r \in stores : r.id = storeId}

(* a query that does not filter on sold_out *)
Available_all(d, storeId) == {sb \in d.store_books : sb.store_id = storeId}

(* WHERE store_id = :storeId AND sold_out = false *)
Available(d, storeId) == {sb \in d.store_books : sb.store_id = storeId /\ ~sb.sold_out}

(* ORDER BY price DESC *)
RECURSIVE PriceOrders(_)
PriceOrders(S) ==
    IF S = {} THEN {<<>>}
    ELSE UNION {{<<m>> \o t : t \in PriceOrders(S \ {m})} :
                   m \in {x \in S : \A y \in S : Val(y.price) <= Val(x.price)}}

(* the include of the book and of its author, and the map of the result *)
BookOf(d, sb) == CHOOSE b \in d.books : b.id = sb.book_id
AuthorOf(d, b) == CHOOSE a \in d.authors : a.id = b.author_id
PricedBook(d, sb) ==
    [name |-> BookOf(d, sb).name, author |-> AuthorOf(d, BookOf(d, sb)).name,
     pages |-> BookOf(d, sb).pages, price |-> sb.price, copies |-> sb.copies]

(* the results getTopPriciestBooks(storeId) can return on the tables d *)
TopPriciestBooks(d, storeId) ==
    {[i \in 1..Len(Limit(o)) |-> PricedBook(d, o[i])] : o \in PriceOrders(Available(d, storeId))}

RECURSIVE SumCopies(_)
SumCopies(S) ==
    IF S = {} THEN 0
    ELSE LET sb == CHOOSE x \in S : TRUE IN sb.copies + SumCopies(S \ {sb})

(* authors a JOIN books b JOIN store_books sb, grouped by author *)
AuthorGroups(d, storeId) ==
    {[name |-> a.name,
      bookCount |-> Cardinality({sb.book_id : sb \in
                       {x \in Available(d, storeId) : BookOf(d, x).author_id = a.id}}),
      totalCopies |-> SumCopies({x \in Available(d, storeId) :
                                    BookOf(d, x).author_id = a.id})] :
        a \in {y \in d.authors :
                  \E x \in Available(d, storeId) : BookOf(d, x).author_id = y.id}}

(* ORDER BY book_count DESC, total_copies DESC *)
Outranks(g, h) ==
    g.bookCount > h.bookCount \/ (g.bookCount = h.bookCount /\ g.totalCopies > h.totalCopies)
RECURSIVE AuthorOrders(_)
AuthorOrders(S) ==
    IF S = {} THEN {<<>>}
    ELSE UNION {{<<m>> \o t : t \in AuthorOrders(S \ {m})} :
                   m \in {x \in S : \A y \in S : ~Outranks(y, x)}}

(* the results getTopProlificAuthors(storeId) can return on the tables d *)
TopProlificAuthors(d, storeId) == {Limit(o) : o \in AuthorOrders(AuthorGroups(d, storeId))}

IngestVars_noPool ==
    <<db, seq, txn, overlap, pc, csv, parsed, idx, results, local, faults,
      db0, snap, begun, persisted, committed, response, malformed, unreachable>>
IngestVars == <<IngestVars_noPool, pool>>

(* generateStoreReport(storeId) up to its first query: Store.findByPk and  *)
(* the throw when there is no such store                                   *)
generateStoreReport ==
    /\ rep.pc = "idle"
    /\ \E storeId \in ReportIds :
          LET store == findByPk(db.stores, storeId)
          IN  rep' = IF store = {}
                     THEN [rep EXCEPT !.pc = "failed", !.op = "generateStoreReport",
                                      !.storeId = storeId]
                     ELSE [rep EXCEPT !.pc = "books", !.op = "generateStoreReport",
                                      !.storeId = storeId,
                                      !.store = CHOOSE r \in store : TRUE]
    /\ UNCHANGED IngestVars

(* what getTopPriciestBooks does to the report service *)
PriciestStep ==
    /\ rep.pc \in {"idle", "books"}
    /\ \E storeId \in IF rep.pc = "idle" THEN ReportIds ELSE {rep.storeId} :
          \E out \in TopPriciestBooks(db, storeId) :
             rep' = [rep EXCEPT !.pc = IF rep.pc = "idle" THEN "done" ELSE "authors",
                                !.op = IF rep.pc = "idle" THEN "getTopPriciestBooks" ELSE @,
                                !.storeId = storeId,
                                !.topPriciestBooks = out,
                                !.dbBooks = db]

(* a query that marks what it returns as sold out *)
getTopPriciestBooks_marksSoldOut ==
    /\ PriciestStep
    /\ db' = [db EXCEPT !.store_books =
                 {[sb EXCEPT !.sold_out = TRUE] : sb \in db.store_books}]
    /\ UNCHANGED <<seq, txn, overlap, pc, csv, parsed, idx, results, local, faults,
                   db0, snap, begun, persisted, committed, response, malformed,
                   unreachable, pool>>

(* getTopPriciestBooks(storeId), called by generateStoreReport or directly *)
getTopPriciestBooks ==
    /\ PriciestStep
    /\ UNCHANGED IngestVars

(* getTopProlificAuthors(storeId), called by generateStoreReport (which    *)
(* then lays out the PDF and returns) or directly                          *)
getTopProlificAuthors ==
    /\ rep.pc \in {"idle", "authors"}
    /\ \E storeId \in IF rep.pc = "idle" THEN ReportIds ELSE {rep.storeId} :
          \E out \in TopProlificAuthors(db, storeId) :
             rep' = [rep EXCEPT !.pc = "done",
                                !.op = IF rep.pc = "idle" THEN "getTopProlificAuthors" ELSE @,
                                !.storeId = storeId,
                                !.topProlificAuthors = out,
                                !.dbAuthors = db]
    /\ UNCHANGED IngestVars

(* a report beside one upload, whose file the parser worker was handed,    *)
(* on a store that holds positions                                         *)
InitReport ==
    /\ overlap = FALSE
    /\ db \in {SeedDb, BigDb}
    /\ seq = [t \in {"stores", "authors", "books"} |-> Cardinality(db[t])]
    /\ txn = [c \in Calls |-> Closed]
    /\ pc = [c \in Calls |-> IF c \in OneCall THEN "parsing" ELSE "idle"]
    /\ \E fileBuffer \in ReportFiles :
          csv = [c \in Calls |-> IF c \in OneCall THEN fileBuffer ELSE <<>>]
    /\ parsed = [c \in Calls |-> NoParse]
    /\ idx = [c \in Calls |-> 0]
    /\ results = [c \in Calls |-> NewResults]
    /\ local = [c \in Calls |-> NoLocal]
    /\ faults = 0
    /\ db0 = db
    /\ snap = [c \in Calls |-> [db |-> EmptyDb, results |-> NewResults]]
    /\ begun = {}
    /\ persisted = [c \in Calls |-> NoCounts]
    /\ committed = {}
    /\ response = [c \in Calls |-> NoResponse]
    /\ malformed = [c \in Calls |-> FALSE]
    /\ unreachable = FALSE
    /\ rep = NoReport
    /\ pool = run(NewPool, 1)

NextReport ==
    \/ \E c \in OneCall : Reconcile(c)
    \/ generateStoreReport
    \/ getTopPriciestBooks
    \/ getTopProlificAuthors

SpecReport == InitReport /\ [][NextReport]_vars

(* the parser worker alone: processCSV has handed it a file, on an empty   *)
(* store, and its result comes back                                        *)
InitParse ==
    /\ overlap = FALSE
    /\ db = EmptyDb
    /\ seq = [t \in {"stores", "authors", "books"} |-> 0]
    /\ txn = [c \in Calls |-> Closed]
    /\ pc = [c \in Calls |-> IF c \in OneCall THEN "parsing" ELSE "idle"]
    /\ \E fileBuffer \in ParseFiles :
          csv = [c \in Calls |-> IF c \in OneCall THEN fileBuffer ELSE <<>>]
    /\ parsed = [c \in Calls |-> NoParse]
    /\ idx = [c \in Calls |-> 0]
    /\ results = [c \in Calls |-> NewResults]
    /\ local = [c \in Calls |-> NoLocal]
    /\ faults = 0
    /\ db0 = db
    /\ snap = [c \in Calls |-> [db |-> EmptyDb, results |-> NewResults]]
    /\ begun = {}
    /\ persisted = [c \in Calls |-> NoCounts]
    /\ committed = {}
    /\ response = [c \in Calls |-> NoResponse]
    /\ malformed = [c \in Calls |-> FALSE]
    /\ unreachable = FALSE
    /\ rep = NoReport
    /\ pool = run(NewPool, 1)

NextParse == \E c \in OneCall : WorkerReturn(c)

SpecParse == InitParse /\ [][NextParse]_vars

TypeOK ==
    /\ \A c \in Calls : pc[c] \in {"idle", "parsing", "begin", "store_find", "store_create",
          "store_logo", "store_address", "author_find", "author_create", "book_find",
          "book_create", "book_update", "inv_find", "inv_update", "inv_create", "commit",
          "rollback", "done", "failed", "rejected"}
    /\ \A c \in Calls : txn[c].open <=>
          pc[c] \notin {"idle", "parsing", "begin", "done", "failed", "rejected"}

(* Simultaneous uploads whose files the parser workers have returned, on   *)
(* the empty store and on the store that holds a position; the event loop  *)
(* resumes an awaited statement whenever the database has answered it.     *)
MaxRaceRows == 1
RaceRows ==
    ConcRows \cup { Row(S1, Empty, B1, <<"7">>, AX, <<"5">>, Empty),
                    Row(S2, Empty, B1, Empty, AX, <<"-", "5">>, Empty) }
RaceFiles == SeqsUpTo(RaceRows, MaxRaceRows)

InitRace ==
    /\ overlap = TRUE
    /\ db \in {EmptyDb, SeedDb}
    /\ seq = [t \in {"stores", "authors", "books"} |-> Cardinality(db[t])]
    /\ txn = [c \in Calls |-> Closed]
    /\ csv \in [Calls -> RaceFiles]
    /\ parsed = [c \in Calls |-> csvParserWorker(csv[c])]
    /\ pc = [c \in Calls |-> LoopPc(c, parsed[c], 1)]
    /\ idx = [c \in Calls |-> 1]
    /\ results = [c \in Calls |-> [NewResults EXCEPT !.errors = parsed[c].validationErrors]]
    /\ local = [c \in Calls |-> NoLocal]
    /\ faults = 0
    /\ db0 = db
    /\ snap = [c \in Calls |-> [db |-> EmptyDb, results |-> NewResults]]
    /\ begun = {}
    /\ persisted = [c \in Calls |-> NoCounts]
    /\ committed = {}
    /\ response = [c \in Calls |->
                      IF pc[c] = "done" THEN UploadResponse(results[c]) ELSE NoResponse]
    /\ malformed = [c \in Calls |-> FALSE]
    /\ unreachable = FALSE
    /\ rep = NoReport
    /\ pool = NewPool

NextRace == \E c \in Calls : processRow(c)

SpecRace ==
    InitRace /\ [][NextRace]_vars /\ \A c \in Calls : WF_vars(processRow(c))

(* The parser pool under load: one upload that is followed up to the      *)
(* return of its parse task, beside the parse tasks of MaxOthers further   *)
(* uploads, each of which submits a new one once its own has returned.     *)
MaxOthers == 5
Others == (MaxCalls + 1)..(MaxCalls + MaxOthers)
PoolTasks == OneCall \cup Others

InQueue(task) == \E k \in 1..Len(pool.queue) : pool.queue[k] = task

(* processCSV of another upload up to its await of csvParserPool.run *)
OtherRun(task) ==
    /\ task \notin pool.busy /\ ~InQueue(task)
    /\ pool' = run(pool, task)
    /\ UNCHANGED <<IngestVars_noPool, rep>>

(* the parse task of another upload returns *)
OtherReturn(task) ==
    /\ task \in pool.busy
    /\ pool' = Released(pool, task)
    /\ UNCHANGED <<IngestVars_noPool, rep>>

(* idleTimeout: a worker beyond minThreads that had no task for 30 seconds *)
(* is stopped                                                              *)
IdleTimeout ==
    /\ pool.threads > minThreads
    /\ Cardinality(pool.busy) < pool.threads
    /\ pool' = [pool EXCEPT !.threads = @ - 1]
    /\ UNCHANGED <<IngestVars_noPool, rep>>

NextPool ==
    \/ \E c \in OneCall : processCSV(c) \/ WorkerReturn(c)
    \/ \E task \in Others : OtherRun(task) \/ OtherReturn(task)
    \/ IdleTimeout

(* a worker that runs a task ends it: the step of the pool by which the    *)
(* task returns                                                            *)
Completes(task) == task \in pool.busy /\ pool' = Released(pool, task)

SpecPool ==
    InitConc /\ [][NextPool]_vars /\ \A task \in PoolTasks : WF_pool(Completes(task))

(***************************************************************************)
(* Vocabulary of the properties.                                           *)
(***************************************************************************)
AllDone == \A c \in Calls : pc[c] \in {"idle", "done", "failed", "rejected"}

(* the transaction of call c commits in this step *)
Commits(c) == pc[c] = "commit" /\ <<c, Cur(c).rowNumber>> \in committed'

(* the row of call c fails in this step: its error is recorded *)
Fails(c) ==
    /\ pc[c] \in {"commit", "rollback"}
    /\ Len(results'[c].errors) = Len(results[c].errors) + 1

(* the inventory positions of table sb for the (store, book) of call c's row *)
PositionsOf(sb, c) ==
    {r \in sb : r.store_id = local[c].store.id /\ r.book_id = local[c].book.id}

(* C1: when a row commits for a (store, book) pair that already had an     *)
(* inventory position, that position's copies is its previous value + 1,   *)
(* its sold_out is false, its price is the row's price; the call's         *)
(* updated.inventory grew by 1 over the row and created.inventory did not  *)
(* change.                                                                 *)
C1_UpdateExistingPosition ==
    [][\A c \in Calls :
          (Commits(c) /\ PositionsOf(db.store_books, c) # {}) =>
              /\ \A old \in PositionsOf(db.store_books, c) :
                    PositionsOf(db'.store_books, c) =
                        {StoreBookRow(old.store_id, old.book_id, parseFloat(row(c).price),
                                      old.copies + 1, FALSE)}
              /\ results'[c].updated.inventory = snap[c].results.updated.inventory + 1
              /\ results'[c].created.inventory = snap[c].results.created.inventory]_vars

(* a sold-out position of the initial store was re-ingested by a first row *)
C1_Witness ==
    \E c \in Calls :
        /\ snap[c].db = SeedDb /\ idx[c] = 2 /\ <<c, 2>> \in committed
        /\ \E r \in db.store_books : r.copies = 4 /\ ~r.sold_out /\ r.price # Num(7)

(* C2: when a row commits for a (store, book) pair that had no inventory   *)
(* position, exactly one position exists for the pair afterwards, with     *)
(* copies = 1, sold_out = false and the row's price; created.inventory     *)
(* grew by exactly 1 over the row and updated.inventory did not grow.      *)
C2_CreatePosition ==
    [][\A c \in Calls :
          (Commits(c) /\ PositionsOf(db.store_books, c) = {}) =>
              /\ PositionsOf(db'.store_books, c) =
                    {StoreBookRow(local[c].store.id, local[c].book.id,
                                  parseFloat(row(c).price), 1, FALSE)}
              /\ results'[c].created.inventory = snap[c].results.created.inventory + 1
              /\ results'[c].updated.inventory = snap[c].results.updated.inventory]_vars

(* a first row created the position of a pair the store did not have *)
C2_Witness ==
    \E c \in Calls :
        /\ snap[c].db = EmptyDb /\ idx[c] = 2 /\ <<c, 2>> \in committed
        /\ \E r \in db.store_books : r.copies = 1 /\ ~r.sold_out /\ r.price = Num(5)

(***************************************************************************)
(* More vocabulary: the rows of the files and what became of them.         *)
(***************************************************************************)
Parsed(c) == pc[c] \notin {"idle", "parsing", "failed", "rejected"}

RECURSIVE SumTo(_, _)
SumTo(f, n) == IF n = 0 THEN 0 ELSE f[n] + SumTo(f, n - 1)
SumCalls(f) == SumTo(f, MaxCalls)

(* the rows of the files uploaded so far, as parsed *)
FileRows == UNION {{mapValues(csv[c][k]) : k \in 1..Len(csv[c])} : c \in Calls}
TotalRows == SumCalls([c \in Calls |-> Len(csv[c])])

(* the errors recorded by call c for the row of ordinal n *)
ErrorsOf(c, n) == {j \in 1..Len(results[c].errors) : results[c].errors[j].row = n}

(* the inventory positions of the store for the (store, author, book)      *)
(* names of row r                                                          *)
PositionsFor(d, r) ==
    {p \in d.store_books :
        \E s \in d.stores, a \in d.authors, b \in d.books :
            /\ s.name = r.store_name /\ a.name = r.author_name
            /\ b.name = r.book_name /\ b.author_id = a.id
            /\ p.store_id = s.id /\ p.book_id = b.id}

(* the parsed row of ordinal n in the file of call c *)
DataOf(c, n) == mapValues(csv[c][n - 1])

(* C3: when one and the same row was ingested N >= 1 times, in one file or *)
(* over several calls, each time successfully, starting from a store that  *)
(* has neither its store nor its author, the store holds exactly one       *)
(* Store, one Author, one Book and one Inventory Position for it, with     *)
(* copies = N and the row's price; summed over the calls, created is 1 for *)
(* each kind and updated.inventory is N - 1.                               *)
C3_SameRowNTimes ==
    \A r \in FileRows :
        LET N == Cardinality(committed)
        IN  (/\ AllDone /\ FileRows = {r} /\ N >= 1 /\ N = TotalRows
             /\ \A s \in db0.stores : s.name # r.store_name
             /\ \A a \in db0.authors : a.name # r.author_name)
            => /\ Cardinality({s \in db.stores : s.name = r.store_name}) = 1
               /\ Cardinality({a \in db.authors : a.name = r.author_name}) = 1
               /\ Cardinality({b \in db.books :
                     /\ b.name = r.book_name
                     /\ \E a \in db.authors : a.name = r.author_name /\ a.id = b.author_id})
                     = 1
               /\ Cardinality(db.stores) = Cardinality(db0.stores) + 1
               /\ Cardinality(db.authors) = Cardinality(db0.authors) + 1
               /\ Cardinality(db.books) = Cardinality(db0.books) + 1
               /\ Cardinality(db.store_books) = Cardinality(db0.store_books) + 1
               /\ \E p \in PositionsFor(db, r) :
                     /\ PositionsFor(db, r) = {p}
                     /\ p.copies = N /\ p.price = parseFloat(r.price)
               /\ SumCalls([c \in Calls |-> results[c].created.stores]) = 1
               /\ SumCalls([c \in Calls |-> results[c].created.authors]) = 1
               /\ SumCalls([c \in Calls |-> results[c].created.books]) = 1
               /\ SumCalls([c \in Calls |-> results[c].created.inventory]) = 1
               /\ SumCalls([c \in Calls |-> results[c].updated.inventory]) = N - 1

(* the same row, twice in each of two files, all four committed *)
C3_Witness ==
    /\ AllDone /\ db0 = EmptyDb /\ Cardinality(FileRows) = 1
    /\ \A c \in Calls : Len(csv[c]) = 2
    /\ Cardinality(committed) = 4
    /\ \E p \in db.store_books : p.copies = 4

(* C4: a row that fails, at whatever step, leaves the persisted Stores,    *)
(* Authors, Books and Inventory Positions as they were when its            *)
(* transaction began, and nothing written for it is left pending.          *)
C4_RowAllOrNothing ==
    [][\A c \in Calls :
          Fails(c) => db' = snap[c].db /\ txn'[c].writes = NoWrites]_vars

(* a row that had created its store, author and book failed *)
C4_Witness ==
    \E c \in Calls :
        /\ pc[c] = "done" /\ Len(results[c].errors) = 1
        /\ results[c].errors[1].error[1] = Null
        /\ results[c].created.stores = 1 /\ results[c].created.books = 1
        /\ persisted[c].stores = 0 /\ persisted[c].books = 0

(* C5: every valid row the loop has passed had its transaction begun, and  *)
(* either committed or is in errors with its ordinal, its data and a       *)
(* reason, whatever happened to the rows before it; the positions of the   *)
(* rows that committed are in the store.                                   *)
C5_FailureDoesNotAbortBatch ==
    \A c \in Calls :
        Parsed(c) =>
            /\ pc[c] = "done" => idx[c] = Len(parsed[c].validatedRows) + 1
            /\ \A k \in 1..Len(parsed[c].validatedRows) :
                  LET v == parsed[c].validatedRows[k]
                      failed == \E j \in ErrorsOf(c, v.rowNumber) :
                                   /\ results[c].errors[j].data = v.data
                                   /\ results[c].errors[j].error[1] = Null
                  IN  k < idx[c] =>
                         /\ <<c, v.rowNumber>> \in begun
                         /\ (<<c, v.rowNumber>> \in committed) # failed
                         /\ <<c, v.rowNumber>> \in committed
                               => PositionsFor(db, v.data) # {}

(* the first row of a file failed and the second one committed *)
C5_Witness ==
    \E c \in Calls :
        /\ pc[c] = "done" /\ Len(parsed[c].validatedRows) = 2
        /\ <<c, 2>> \in begun /\ <<c, 2>> \notin committed
        /\ <<c, 3>> \in committed

(* C6: in every persisted state no two Stores share a name, no two Authors *)
(* share a name, no two Books share (name, author_id), no two Inventory    *)
(* Positions share (store_id, book_id), ids are unique, and two committed  *)
(* rows with the same title and different authors have two distinct Books. *)
C6_NaturalKeysUnique ==
    /\ \A t \in Tables : \A r1, r2 \in db[t] :
          (UniqueKey(t, r1) = UniqueKey(t, r2) \/ Key(t, r1) = Key(t, r2)) => r1 = r2
    /\ \A x, y \in committed :
          LET rx == DataOf(x[1], x[2])
              ry == DataOf(y[1], y[2])
          IN  (rx.book_name = ry.book_name /\ rx.author_name # ry.author_name) =>
                \E bx, by \in db.books, ax, ay \in db.authors :
                    /\ ax.name = rx.author_name /\ ay.name = ry.author_name
                    /\ bx.name = rx.book_name /\ by.name = ry.book_name
                    /\ bx.author_id = ax.id /\ by.author_id = ay.id
                    /\ bx.id # by.id

(* two books with one title, committed by two uploads that overlapped *)
C6_Witness ==
    /\ overlap
    /\ \E b1, b2 \in db.books : b1.name = b2.name /\ b1.author_id # b2.author_id
    /\ \E x, y \in committed : x[1] # y[1]
    /\ \A c \in Calls : Running(c) /\ idx[c] = 2

(* what the validator is to reject: a required field that is empty, a     *)
(* price that is no number, pages that are no integer >= 1                 *)
RequiredPresent(r) ==
    r.store_name # Empty /\ r.book_name # Empty /\ r.author_name # Empty /\ r.price # Empty
PagesOk(r) ==
    r.pages = Empty \/ (~isNaN(parseInt(r.pages)) /\ Val(parseInt(r.pages)) >= 1)
Rejectable(r) ==
    ~RequiredPresent(r) \/ isNaN(parseFloat(r.price)) \/ ~PagesOk(r)
NegativePriced(r) ==
    /\ RequiredPresent(r) /\ PagesOk(r)
    /\ ~isNaN(parseFloat(r.price)) /\ Val(parseFloat(r.price)) < 0

(* C7: a row the validator is to reject has no transaction begun for it,   *)
(* is in errors exactly once, with its ordinal, its data and, when its     *)
(* price is no number, a reason about the price; a file of such rows only  *)
(* leaves the store as it was.                                             *)
C7_RejectedRowNotReconciled ==
    \A c \in Calls :
        Parsed(c) =>
            /\ \A k \in 1..Len(csv[c]) :
                  LET r == mapValues(csv[c][k])
                      n == k + 1
                  IN  Rejectable(r) =>
                         /\ <<c, n>> \notin begun
                         /\ Cardinality(ErrorsOf(c, n)) = 1
                         /\ \A j \in ErrorsOf(c, n) :
                               LET e == results[c].errors[j]
                               IN  /\ e.data = r
                                   /\ e.error[1] = Num(n)
                                   /\ (RequiredPresent(r) /\ isNaN(parseFloat(r.price)))
                                         => e.error[2] = "Invalid price value"
            /\ (/\ \A k \in 1..Len(csv[c]) : Rejectable(mapValues(csv[c][k]))
                /\ \A d \in Calls \ {c} : pc[d] = "idle")
                  => db = db0 /\ seq = [t \in DOMAIN seq |-> Cardinality(db0[t])]

(* a file with a row of non-numeric price and a row that committed *)
C7_Witness ==
    \E c \in Calls :
        /\ pc[c] = "done" /\ results[c].processed = 1
        /\ Len(results[c].errors) = 1
        /\ results[c].errors[1].error[2] = "Invalid price value"
        /\ results[c].errors[1].error[1] # Null

(* C8: a row with a negative price and otherwise valid fields is among the *)
(* validated rows; once the loop has passed it, it has not committed and   *)
(* is in errors with the reason "Invalid price value: <price>"; a file of  *)
(* such rows only leaves the Stores, Authors, Books and Inventory          *)
(* Positions as they were.                                                 *)
C8_NegativePriceFailsInReconciliation ==
    \A c \in Calls :
        Parsed(c) =>
            /\ \A k \in 1..Len(csv[c]) :
                  LET r == mapValues(csv[c][k])
                      n == k + 1
                  IN  NegativePriced(r) =>
                         \E j \in 1..Len(parsed[c].validatedRows) :
                            /\ parsed[c].validatedRows[j] = [rowNumber |-> n, data |-> r]
                            /\ j < idx[c] =>
                                  /\ <<c, n>> \in begun
                                  /\ <<c, n>> \notin committed
                                  /\ \E i \in ErrorsOf(c, n) :
                                        results[c].errors[i] =
                                           [row |-> n, data |-> r,
                                            error |-> Message(Null, "Invalid price value",
                                                              r.price)]
            /\ (/\ \A k \in 1..Len(csv[c]) : NegativePriced(mapValues(csv[c][k]))
                /\ \A d \in Calls \ {c} : pc[d] = "idle")
                  => db = db0

(* a negative-priced row created its store, author and book, and failed *)
C8_Witness ==
    \E c \in Calls :
        /\ pc[c] = "done" /\ db0 = EmptyDb /\ db = EmptyDb
        /\ Len(csv[c]) = 1 /\ NegativePriced(mapValues(csv[c][1]))
        /\ results[c].created.stores = 1 /\ results[c].created.authors = 1
        /\ results[c].created.books = 1
        /\ Len(results[c].errors) = 1

(* C9: in the result of a finished call, created.stores, created.authors,  *)
(* created.books and created.inventory are the numbers of rows of each     *)
(* kind that the call's commits inserted, and updated.inventory is the     *)
(* number of committed updates of existing positions.                      *)
C9_CountsMatchPersisted ==
    \A c \in Calls :
        pc[c] = "done" =>
            /\ results[c].created.stores = persisted[c].stores
            /\ results[c].created.authors = persisted[c].authors
            /\ results[c].created.books = persisted[c].books
            /\ results[c].created.inventory = persisted[c].inventory
            /\ results[c].updated.inventory = persisted[c].updates

(* the copies the position had before any upload *)
InitialCopies(p) ==
    LET q == {x \in db0.store_books : Key("store_books", x) = Key("store_books", p)}
    IN  IF q = {} THEN 0 ELSE (CHOOSE x \in q : TRUE).copies

(* C10: when overlapping uploads are over, no row has failed because       *)
(* another call created its position first, and the copies of every        *)
(* position is what it was initially plus the number of committed rows     *)
(* for its (store, book) pair.                                             *)
C10_NoLostIncrement ==
    AllDone =>
        /\ \A c \in Calls : \A j \in 1..Len(results[c].errors) :
              results[c].errors[j].error[2] # "Validation error"
        /\ \A p \in db.store_books :
              p.copies = InitialCopies(p)
                 + Cardinality({x \in committed : p \in PositionsFor(db, DataOf(x[1], x[2]))})

(* call c loses the race for the entity of table t in this step: its       *)
(* INSERT meets the row another transaction committed after c's find       *)
CreatePc(t) == CASE t = "stores" -> "store_create"
                 [] t = "authors" -> "author_create"
                 [] t = "books" -> "book_create"
NaturalKey(c, t) ==
    CASE t = "stores" -> <<row(c).store_name>>
      [] t = "authors" -> <<row(c).author_name>>
      [] t = "books" -> <<row(c).book_name, local[c].author.id>>
Loses(c, t) ==
    pc[c] = CreatePc(t) /\ pc'[c] # pc[c] /\ UniqueViolation(t, NaturalKey(c, t))
EntityOf(loc, t) ==
    CASE t = "stores" -> loc.store [] t = "authors" -> loc.author [] t = "books" -> loc.book
CreatedFlag(loc, t) ==
    CASE t = "stores" -> loc.storeCreated
      [] t = "authors" -> loc.authorCreated
      [] t = "books" -> loc.bookCreated

(* C11: when overlapping uploads race to create one Store, Author or Book, *)
(* one entity is persisted for the natural key; the transaction whose      *)
(* insert meets the unique index goes on with the persisted entity, as     *)
(* found and not as created, and records no error for its row.             *)
C11_CreateRaceResolved ==
    [][/\ \A t \in {"stores", "authors", "books"} : \A r1, r2 \in db'[t] :
              UniqueKey(t, r1) = UniqueKey(t, r2) => r1 = r2
       /\ \A c \in Calls : \A t \in {"stores", "authors", "books"} :
              Loses(c, t) =>
                 /\ EntityOf(local'[c], t) \in db[t]
                 /\ UniqueKey(t, EntityOf(local'[c], t)) = NaturalKey(c, t)
                 /\ ~CreatedFlag(local'[c], t)
                 /\ pc'[c] # "rollback"
                 /\ results'[c].errors = results[c].errors
                 /\ results'[c].created = results[c].created
                 /\ txn'[c] = txn[c]]_vars

(* two overlapping uploads have committed rows for one new store: one      *)
(* store was persisted, the other insert drew an id and found the store    *)
(* again, and no row failed                                                *)
C11_Witness ==
    /\ overlap /\ AllDone
    /\ \A c \in Calls : results[c].errors = <<>> /\ results[c].processed >= 1
    /\ seq.stores = Cardinality(db.stores) + 1
    /\ Cardinality(db.stores) = Cardinality(db0.stores) + 1

(***************************************************************************)
(* The upload as a whole.                                                  *)
(***************************************************************************)
HasResults(c) == "results" \in DOMAIN response[c]
ConnectionErrors(c) ==
    {j \in 1..Len(results[c].errors) : results[c].errors[j].error[2] = "ConnectionError"}

(* C12: an upload whose text the parser failed on has failed as a whole:   *)
(* the route answered with one error and no results, no list of rows or    *)
(* errors came back, no transaction was begun or is open for it, and the   *)
(* store and its sequences are as they were.                               *)
C12_ParseFailureFailsCall ==
    \A c \in OneCall :
        (malformed[c] /\ pc[c] # "parsing") =>
            /\ pc[c] = "failed"
            /\ response[c].status # 0 /\ ~HasResults(c) /\ ~response[c].success
            /\ parsed[c] = NoParse
            /\ results[c] = NewResults
            /\ \A x \in begun : x[1] # c
            /\ ~txn[c].open /\ txn[c].writes = NoWrites
            /\ db = db0 /\ seq = [t \in DOMAIN seq |-> Cardinality(db0[t])]

(* the parser failed on the text of an upload *)
C12_Witness ==
    \E c \in OneCall : malformed[c] /\ pc[c] = "failed" /\ response[c].status = 500

(* C13: the calls that fail as a whole are those whose text the parser     *)
(* failed on and those that met a lost database: a call that met the lost  *)
(* database has failed, without going through its remaining rows; a row    *)
(* whose commit failed is in errors and the call has not failed.           *)
C13_OnlyParseAndOutagePropagate ==
    \A c \in OneCall :
        /\ pc[c] = "failed" => malformed[c] \/ ConnectionErrors(c) # {}
        /\ (malformed[c] /\ pc[c] # "parsing") => pc[c] = "failed"
        /\ ConnectionErrors(c) # {} =>
              /\ pc[c] = "failed"
              /\ Cardinality(ConnectionErrors(c)) = 1
              /\ ~HasResults(c)
        /\ (faults > 0 /\ ConnectionErrors(c) = {}) => pc[c] # "failed"

(* C14: the route answers a returned result with success = false exactly   *)
(* when no row was processed and there is at least one error; with one row *)
(* processed or more it answers success = true and status 200; the answer  *)
(* carries the result, whose errors and processed rows account for every   *)
(* row of the file.                                                        *)
C14_OverallSuccess ==
    \A c \in OneCall :
        /\ pc[c] = "done" => HasResults(c)
        /\ HasResults(c) =>
              LET res == response[c].results
              IN  /\ pc[c] = "done" /\ res = results[c]
                  /\ response[c].success = ~(res.processed = 0 /\ Len(res.errors) > 0)
                  /\ res.processed >= 1 => response[c].success /\ response[c].status = 200
                  /\ ~response[c].success => response[c].status = 400
                  /\ res.processed + Len(res.errors) = Len(csv[c])
                  /\ res.processed = Cardinality({x \in committed : x[1] = c})

(* a file with one row that failed and one that was processed: success *)
C14_Witness ==
    \E c \in OneCall :
        /\ HasResults(c) /\ response[c].success
        /\ response[c].results.processed = 1 /\ Len(response[c].results.errors) = 1

(***************************************************************************)
(* The parser worker.                                                      *)
(***************************************************************************)
Ascending(ns) == \A i, j \in 1..Len(ns) : i < j => ns[i] < ns[j]

(* C15: the worker gives the k-th record of the file the ordinal k + 1;    *)
(* every record is in validatedRows or in validationErrors, once and in    *)
(* one of them only, with its ordinal and its trimmed data; the ordinals   *)
(* of each sequence ascend; totalParsed is the number of records and the   *)
(* sum of the lengths of the two sequences.                                *)
C15_OrdinalsAndPartition ==
    \A c \in OneCall :
        Parsed(c) =>
            LET p == parsed[c]
                V(k) == {j \in 1..Len(p.validatedRows) :
                            p.validatedRows[j].rowNumber = k + 1}
                E(k) == {j \in 1..Len(p.validationErrors) :
                            p.validationErrors[j].row = k + 1}
            IN  /\ \A k \in 1..Len(csv[c]) :
                      /\ Cardinality(V(k)) + Cardinality(E(k)) = 1
                      /\ \A j \in V(k) : p.validatedRows[j].data = mapValues(csv[c][k])
                      /\ \A j \in E(k) :
                            /\ p.validationErrors[j].data = mapValues(csv[c][k])
                            /\ p.validationErrors[j].error[1] = Num(k + 1)
                /\ Ascending([j \in 1..Len(p.validatedRows) |-> p.validatedRows[j].rowNumber])
                /\ Ascending([j \in 1..Len(p.validationErrors) |-> p.validationErrors[j].row])
                /\ p.totalParsed = Len(csv[c])
                /\ p.totalParsed = Len(p.validatedRows) + Len(p.validationErrors)

(* a file of three records: the first and the third valid, the second not *)
C15_Witness ==
    \E c \in OneCall :
        /\ Parsed(c)
        /\ Len(parsed[c].validatedRows) = 2 /\ Len(parsed[c].validationErrors) = 1
        /\ parsed[c].validatedRows[1].rowNumber = 2
        /\ parsed[c].validatedRows[2].rowNumber = 4
        /\ parsed[c].validationErrors[1].row = 3

(* what validateRow is to accept: the four required fields non-empty after *)
(* trimming, a price that parses as a finite number, pages empty or        *)
(* parsing as an integer >= 1                                              *)
Acceptable(r) ==
    /\ RequiredPresent(r)
    /\ ~isNaN(parseFloat(r.price)) /\ isFinite(parseFloat(r.price))
    /\ PagesOk(r)

(* C16: a record is among the validated rows if and only if it is          *)
(* acceptable; every other record is among the validation errors, with a   *)
(* reason that carries its ordinal.                                        *)
C16_ValidateRowAcceptsIff ==
    \A c \in OneCall :
        Parsed(c) =>
            \A k \in 1..Len(csv[c]) :
                LET r == mapValues(csv[c][k])
                    valid == \E j \in 1..Len(parsed[c].validatedRows) :
                                parsed[c].validatedRows[j] = [rowNumber |-> k + 1, data |-> r]
                    invalid == \E j \in 1..Len(parsed[c].validationErrors) :
                                  /\ parsed[c].validationErrors[j].row = k + 1
                                  /\ parsed[c].validationErrors[j].data = r
                                  /\ parsed[c].validationErrors[j].error[1] = Num(k + 1)
                IN  /\ valid <=> Acceptable(r)
                    /\ invalid <=> ~Acceptable(r)

(***************************************************************************)
(* The reports.                                                            *)
(***************************************************************************)
(* a ranking of books, of authors, has been returned *)
BooksRanked == rep.pc \in {"authors", "done"} /\ rep.op # "getTopProlificAuthors"
AuthorsRanked == rep.pc = "done" /\ rep.op # "getTopPriciestBooks"

(* the positions of store id on the tables d for the book an entry of the  *)
(* ranking names                                                           *)
PositionsNamed(d, id, e) ==
    {sb \in d.store_books :
        /\ sb.store_id = id
        /\ \E b \in d.books, a \in d.authors :
              /\ b.id = sb.book_id /\ a.id = b.author_id
              /\ b.name = e.name /\ a.name = e.author}

(* the place of a position in the order of insertion: the positions of the *)
(* initial store in the order of their books, then those the rows of the   *)
(* upload created, in the order of the rows                                *)
InsertionRank(p) ==
    IF \E q \in db0.store_books : Key("store_books", q) = Key("store_books", p)
    THEN p.book_id
    ELSE Cardinality(db0.books) +
         (CHOOSE n \in 2..(MaxRows + 1) :
             /\ \E c \in OneCall : \E q \in PositionsFor(db, DataOf(c, n)) :
                   /\ <<c, n>> \in committed
                   /\ Key("store_books", q) = Key("store_books", p)
             /\ \A m \in 2..(n - 1) :
                   ~\E c \in OneCall : \E q \in PositionsFor(db, DataOf(c, m)) :
                       /\ <<c, m>> \in committed
                       /\ Key("store_books", q) = Key("store_books", p))

(* the ranking of books is made of positions of the store that are not     *)
(* sold out, at most ReportLimit of them, each once, by non-increasing     *)
(* price, and no position left out is priced higher than one returned      *)
PriciestSound ==
    LET R == rep.topPriciestBooks
        d == rep.dbBooks
        id == rep.storeId
        returned == UNION {PositionsNamed(d, id, R[i]) : i \in 1..Len(R)}
    IN  /\ Len(R) <= ReportLimit
        /\ \A i \in 1..Len(R) :
              /\ Cardinality(PositionsNamed(d, id, R[i])) = 1
              /\ \A sb \in PositionsNamed(d, id, R[i]) :
                    ~sb.sold_out /\ sb.price = R[i].price /\ sb.copies = R[i].copies
        /\ \A i, j \in 1..Len(R) :
              i < j => /\ PositionsNamed(d, id, R[i]) # PositionsNamed(d, id, R[j])
                       /\ Val(R[i].price) >= Val(R[j].price)
        /\ \A q \in d.store_books :
              (q.store_id = id /\ ~q.sold_out /\ q \notin returned) =>
                  /\ Len(R) = ReportLimit
                  /\ \A i \in 1..Len(R) : Val(q.price) <= Val(R[i].price)

(* positions of one price are ranked in the order of their insertion *)
PriciestStable ==
    LET R == rep.topPriciestBooks
        d == rep.dbBooks
        id == rep.storeId
        returned == UNION {PositionsNamed(d, id, R[i]) : i \in 1..Len(R)}
    IN  /\ \A i, j \in 1..Len(R) :
              (i < j /\ R[i].price = R[j].price) =>
                  \A x \in PositionsNamed(d, id, R[i]), y \in PositionsNamed(d, id, R[j]) :
                      InsertionRank(x) < InsertionRank(y)
        /\ \A q \in d.store_books :
              (q.store_id = id /\ ~q.sold_out /\ q \notin returned) =>
                  \A x \in returned : x.price = q.price => InsertionRank(x) < InsertionRank(q)

(* C17: the ranking getTopPriciestBooks returns is made of positions of    *)
(* the store that are not sold out, at most 5, by non-increasing price,    *)
(* with no priced-higher position left out, and positions of equal price   *)
(* come in the order of their insertion.                                   *)
C17_TopPriciestBooks == BooksRanked => PriciestSound /\ PriciestStable

(* the books of author a that store id holds and has not sold out, on d *)
BooksInStore(d, id, a) ==
    {b \in d.books :
        /\ b.author_id = a.id
        /\ \E sb \in d.store_books : sb.store_id = id /\ sb.book_id = b.id /\ ~sb.sold_out}

(* the copies store id holds of them *)
CopiesInStore(d, id, a) ==
    SumTo([i \in 1..seq.books |->
              IF \E b \in BooksInStore(d, id, a) : b.id = i
              THEN (CHOOSE sb \in d.store_books : sb.store_id = id /\ sb.book_id = i).copies
              ELSE 0],
          seq.books)

(* C18: the ranking getTopProlificAuthors returns has at most 5 authors,   *)
(* each once, each with a book the store holds and has not sold out;       *)
(* bookCount is the number of such books and totalCopies the copies the    *)
(* store holds of them; the authors come by bookCount descending, then by  *)
(* totalCopies descending, and no author left out ranks above one          *)
(* returned.                                                               *)
C18_TopProlificAuthors ==
    AuthorsRanked =>
        LET R == rep.topProlificAuthors
            d == rep.dbAuthors
            id == rep.storeId
            Named(e) == {a \in d.authors : a.name = e.name}
        IN  /\ Len(R) <= ReportLimit
            /\ \A i \in 1..Len(R) :
                  /\ Cardinality(Named(R[i])) = 1
                  /\ \A a \in Named(R[i]) :
                        /\ BooksInStore(d, id, a) # {}
                        /\ R[i].bookCount = Cardinality(BooksInStore(d, id, a))
                        /\ R[i].totalCopies = CopiesInStore(d, id, a)
            /\ \A i, j \in 1..Len(R) :
                  i < j => /\ R[i].name # R[j].name
                           /\ \/ R[i].bookCount > R[j].bookCount
                              \/ /\ R[i].bookCount = R[j].bookCount
                                 /\ R[i].totalCopies >= R[j].totalCopies
            /\ \A a \in d.authors :
                  (BooksInStore(d, id, a) # {} /\ \A i \in 1..Len(R) : R[i].name # a.name) =>
                      /\ Len(R) = ReportLimit
                      /\ \A i \in 1..Len(R) :
                            \/ R[i].bookCount > Cardinality(BooksInStore(d, id, a))
                            \/ /\ R[i].bookCount = Cardinality(BooksInStore(d, id, a))
                               /\ R[i].totalCopies >= CopiesInStore(d, id, a)

(* five of the six authors of a store were ranked: two authors of two      *)
(* books each come first, the one with 5 copies before the one with 3,     *)
(* while a sold out book of the second and another store's copies of its   *)
(* book are left out of its numbers                                        *)
C18_Witness ==
    /\ AuthorsRanked /\ rep.dbAuthors = BigDb /\ rep.storeId = 1
    /\ Len(rep.topProlificAuthors) = ReportLimit
    /\ rep.topProlificAuthors[1] = [name |-> <<"B">>, bookCount |-> 2, totalCopies |-> 5]
    /\ rep.topProlificAuthors[2] = [name |-> <<"A">>, bookCount |-> 2, totalCopies |-> 3]

(* the report generateStoreReport returned *)
Reported == rep.pc = "done" /\ rep.op = "generateStoreReport"

(* both rankings of the report can be read off the committed tables d *)
ReadOff(d) ==
    /\ rep.topPriciestBooks \in TopPriciestBooks(d, rep.storeId)
    /\ rep.topProlificAuthors \in TopProlificAuthors(d, rep.storeId)

(* C19: a report produced while an upload runs reflects one consistent     *)
(* snapshot: its two rankings together show, of every row, all committed   *)
(* writes or none, and no write of an open or rolled back transaction,     *)
(* that is, both can be read off one committed state of the tables.        *)
C19_ReportSnapshot ==
    Reported => ReadOff(rep.dbBooks) \/ ReadOff(rep.dbAuthors)

(* a reporting operation took a step *)
Reporting == rep' # rep

(* C20: the reporting operations are read-only: no step of                 *)
(* generateStoreReport, getTopPriciestBooks or getTopProlificAuthors, for  *)
(* an existing or a missing store id, changes the persisted Stores,        *)
(* Authors, Books and Inventory Positions (nor the sequences, nor an open  *)
(* transaction's writes).                                                  *)
C20_ReportsReadOnly ==
    [][Reporting => db' = db /\ seq' = seq /\ txn' = txn]_vars

(* generateStoreReport returned both rankings of a store that holds        *)
(* positions while an upload committed a row between its queries, and the  *)
(* tables are those its last query read                                    *)
C20_Witness ==
    /\ Reported /\ rep.topPriciestBooks # <<>> /\ rep.topProlificAuthors # <<>>
    /\ db = rep.dbAuthors /\ db # rep.dbBooks

(* the place of a table in the order Store, Author, Book, Inventory        *)
(* Position                                                                *)
Rank(t) == CASE t = "stores" -> 1 [] t = "authors" -> 2 [] t = "books" -> 3
             [] t = "store_books" -> 4

(* the entity the statement a call is at works on; 5 when the transaction  *)
(* is ending                                                               *)
Stage(p) ==
    CASE p \in {"store_find", "store_create", "store_logo", "store_address"} -> 1
      [] p \in {"author_find", "author_create"} -> 2
      [] p \in {"book_find", "book_create", "book_update"} -> 3
      [] p \in {"inv_find", "inv_update", "inv_create"} -> 4
      [] OTHER -> 5

(* the transaction of call c goes on *)
Continues(c) == txn[c].open /\ txn'[c].open

(* the statement call c is at waits for a lock another transaction holds *)
Waiting(c) ==
    \/ pc[c] = "store_create" /\ InsertWaits(c, "stores", <<row(c).store_name>>)
    \/ pc[c] \in {"store_logo", "store_address"}
          /\ LockedByOther(c, "stores", <<local[c].store.id>>)
    \/ pc[c] = "author_create" /\ InsertWaits(c, "authors", <<row(c).author_name>>)
    \/ pc[c] = "book_create"
          /\ InsertWaits(c, "books", <<row(c).book_name, local[c].author.id>>)
    \/ pc[c] = "book_update" /\ LockedByOther(c, "books", <<local[c].book.id>>)
    \/ pc[c] = "inv_update"
          /\ LockedByOther(c, "store_books", <<local[c].existingInventory.store_id,
                                               local[c].existingInventory.book_id>>)
    \/ pc[c] = "inv_create"
          /\ InsertWaits(c, "store_books", <<local[c].store.id, local[c].book.id>>)

(* C21: with simultaneous processCSV calls, every row transaction touches  *)
(* its entities in the order Store, Author, Book, Inventory Position (a    *)
(* statement never works on an entity that comes before the one of the     *)
(* previous statement, and a table is written only while no later table    *)
(* has been); the open transactions never all wait for one another; and    *)
(* every transaction that was opened eventually commits or rolls back.     *)
C21_FixedOrderNoDeadlock ==
    /\ [][\A c \in Calls :
             Continues(c) =>
                /\ Stage(pc'[c]) >= Stage(pc[c])
                /\ \A t \in Tables :
                      txn'[c].writes[t] # txn[c].writes[t] =>
                         /\ Rank(t) = Stage(pc[c])
                         /\ \A u \in Tables : Rank(u) > Rank(t) => txn[c].writes[u] = {}]_vars
    /\ [](\A c \in Calls : txn[c].open /\ Waiting(c) =>
              \E d \in Calls \ {c} : txn[d].open /\ ~Waiting(d))
    /\ \A c \in Calls : txn[c].open ~> ~txn[c].open

(* two transactions are open, one waits for the other, which has written   *)
(* a store and goes on                                                     *)
C21_Witness ==
    \E c, d \in Calls :
       /\ c # d /\ txn[c].open /\ txn[d].open
       /\ Waiting(c) /\ ~Waiting(d)
       /\ txn[d].writes.stores # {} /\ Stage(pc[d]) > 1

(* the ordinals of the rows of call c whose transaction was opened, and    *)
(* whether the transaction of row n has ended, by a commit or by a         *)
(* rollback that left the row's error in the results                       *)
BegunBy(c) == {b[2] : b \in {x \in begun : x[1] = c}}
Ended(c, n) == <<c, n>> \in committed \/ ErrorsOf(c, n) # {}

(* C22: within one processCSV call the valid rows are reconciled one at a  *)
(* time in ascending order of their ordinals: a row's transaction is       *)
(* opened only when the call has no open transaction and every row begun   *)
(* before has a smaller ordinal and has been committed or rolled back; at  *)
(* any time at most the last row begun is unfinished; and when the call    *)
(* returns every valid row was begun and every transaction has ended.      *)
C22_RowsOneAtATimeInOrder ==
    /\ [][\A b \in begun' \ begun :
             /\ ~txn[b[1]].open /\ txn'[b[1]].open
             /\ \A n \in BegunBy(b[1]) : n < b[2] /\ Ended(b[1], n)]_vars
    /\ [](\A c \in Calls :
             /\ \A n \in BegunBy(c) :
                   ~Ended(c, n) => txn[c].open /\ \A m \in BegunBy(c) : m <= n
             /\ pc[c] = "done" =>
                   /\ ~txn[c].open
                   /\ BegunBy(c) = {parsed[c].validatedRows[k].rowNumber :
                                       k \in 1..Len(parsed[c].validatedRows)}
                   /\ \A n \in BegunBy(c) : Ended(c, n))

(* a call returned after two rows: the first rolled back, the second       *)
(* committed                                                               *)
C22_Witness ==
    \E c \in Calls :
       /\ pc[c] = "done" /\ BegunBy(c) = {2, 3}
       /\ ErrorsOf(c, 2) # {} /\ <<c, 3>> \in committed

(* a call's parse task is in the pool: on a worker or in the queue *)
Submitted(task) == task \in pool.busy \/ InQueue(task)

(* C23: the parser pool is bounded: at most maxThreads = 4 parse tasks run *)
(* at a time, on as many workers at most; a processCSV call has exactly    *)
(* one task in the pool from its call to the return of the result, none    *)
(* before and none after, and its loop over the rows starts only when the  *)
(* result has been returned; a task submitted while 4 tasks run is put in  *)
(* the queue, no worker being started, and a task in the queue is          *)
(* eventually run.                                                         *)
C23_ParserPoolBounded ==
    /\ [](/\ Cardinality(pool.busy) <= pool.threads
          /\ pool.threads <= maxThreads /\ maxThreads = 4
          /\ \A task \in PoolTasks :
                Cardinality({k \in 1..Len(pool.queue) : pool.queue[k] = task})
                   + (IF task \in pool.busy THEN 1 ELSE 0) <= 1
          /\ \A c \in OneCall :
                /\ Submitted(c) <=> pc[c] = "parsing"
                /\ pc[c] \in {"begin", "done"} <=> parsed[c] # NoParse
                /\ parsed[c] # NoParse => parsed[c] = csvParserWorker(csv[c]))
    /\ [][\A task \in PoolTasks :
             (~Submitted(task) /\ Submitted(task)' /\ Cardinality(pool.busy) = maxThreads) =>
                 /\ InQueue(task)' /\ task \notin pool.busy'
                 /\ pool.threads' = pool.threads /\ pool.busy' = pool.busy]_vars
    /\ \A task \in PoolTasks : InQueue(task) ~> task \in pool.busy

(* four parse tasks run on four workers and the call's task waits in the   *)
(* queue behind another one                                                *)
C23_Witness ==
    /\ Cardinality(pool.busy) = maxThreads /\ pool.threads = maxThreads
    /\ Len(pool.queue) = 2 /\ pool.queue[2] = 1
    /\ pc[1] = "parsing"

(* the store named name on the tables d (a set: empty when there is none)  *)
StoreNamed(d, name) == {r \in d.stores : r.name = name}

(* the value a column of an existing store has after a row that supplies   *)
(* the text given                                                          *)
Supplied(stored, given) == IF given # Empty /\ given # stored THEN given ELSE stored

(* C24: when a row that references an existing store commits, the store's *)
(* address (logo) is the row's address (logo) if that is non-empty and     *)
(* differs from the stored one, and is unchanged otherwise, its id and     *)
(* name being kept; and by no step of ingestion does an address or a logo  *)
(* that is not null become null or empty.                                  *)
C24_StoreAddressAndLogo ==
    [][/\ \A c \in Calls :
            Commits(c) =>
               \A old \in StoreNamed(db, row(c).store_name) :
                  StoreNamed(db', row(c).store_name) =
                     {[old EXCEPT !.address = Supplied(old.address, row(c).store_address),
                                  !.logo = Supplied(old.logo, row(c).logo)]}
       /\ \A old \in db.stores :
            \E new \in db'.stores :
               /\ new.id = old.id
               /\ old.address # Null => new.address \notin {Null, Empty}
               /\ old.logo # Null => new.logo \notin {Null, Empty}]_vars

(* a store without address and logo was given both by a first row, and a   *)
(* second row with neither has committed since, leaving them in place      *)
C24_Witness ==
    \E c \in Calls :
       /\ pc[c] = "done" /\ {<<c, 2>>, <<c, 3>>} \subseteq committed
       /\ Len(csv[c]) = 2
       /\ csv[c][1].store_name = S1 /\ csv[c][2].store_name = S1
       /\ csv[c][1].store_address = <<"a">> /\ csv[c][1].logo = <<"l">>
       /\ csv[c][2].store_address = Empty /\ csv[c][2].logo = Empty
       /\ StoreNamed(db0, S1) = {StoreRow(1, S1, Null, Null)}
       /\ StoreNamed(db, S1) = {StoreRow(1, S1, <<"a">>, <<"l">>)}

(* the books named name by the author named author on the tables d *)
BooksNamed(d, name, author) ==
    {b \in d.books : b.name = name /\ \E a \in d.authors : a.id = b.author_id /\ a.name = author}

(* C25: when a row commits whose book (same name, same author) was already *)
(* persisted, the book's pages is the integer parsed from the row's pages   *)
(* if the row has a non-empty pages whose integer differs from the stored   *)
(* one, and is unchanged otherwise (so a row without pages leaves it), the  *)
(* rest of the book being kept; when the book was not persisted, one book   *)
(* is created, with the parsed pages, or null when the row has none.        *)
C25_BookPages ==
    [][\A c \in Calls :
          Commits(c) =>
             LET r == row(c)
                 olds == BooksNamed(db, r.book_name, r.author_name)
                 news == BooksNamed(db', r.book_name, r.author_name)
             IN  IF olds # {}
                 THEN \A old \in olds :
                         news = {[old EXCEPT !.pages =
                                    IF r.pages # Empty /\ parseInt(r.pages) # old.pages
                                    THEN parseInt(r.pages) ELSE old.pages]}
                 ELSE /\ Cardinality(news) = 1
                      /\ \A new \in news :
                            new.pages = IF r.pages # Empty THEN parseInt(r.pages) ELSE Null]_vars

(* a book seeded without pages got 7 pages from a first row, and a second   *)
(* row without pages has committed since, leaving the 7                     *)
C25_Witness ==
    \E c \in Calls :
       /\ pc[c] = "done" /\ {<<c, 2>>, <<c, 3>>} \subseteq committed
       /\ Len(csv[c]) = 2
       /\ csv[c][1].pages = <<"7">> /\ csv[c][2].pages = Empty
       /\ csv[c][1].author_name = AX /\ csv[c][2].author_name = AX
       /\ BooksNamed(db0, B1, AX) = {BookRow(1, B1, Null, 1)}
       /\ BooksNamed(db, B1, AX) = {BookRow(1, B1, Num(7), 1)}

(* row new of table t is row old, or what ingestion may have made of it:   *)
(* the same key; for an author the same row; for a store the same name;    *)
(* for a book the same name and author                                     *)
SameIdentity(t, old, new) ==
    /\ Key(t, new) = Key(t, old)
    /\ t = "authors" => new = old
    /\ t = "stores" => new.name = old.name
    /\ t = "books" => new.name = old.name /\ new.author_id = old.author_id

(* C26: ingestion never deletes and never rewrites identity: by every step *)
(* each persisted Store, Author, Book and Inventory Position is still      *)
(* persisted under the same key, an Author is unchanged, and the name of a *)
(* Store and the (name, author_id) of a Book are unchanged.                *)
C26_NoDeleteNoIdentityRewrite ==
    [][\A t \in Tables : \A old \in db[t] :
          \E new \in db'[t] : SameIdentity(t, old, new)]_vars

(* both uploads are over: the seeded rows are all there, the seeded store  *)
(* has been given an address, the seeded position has been incremented,    *)
(* and an author and a book have been added                                *)
C26_Witness ==
    /\ AllDone /\ db0 = SeedDb /\ committed # {}
    /\ \E r \in db.stores : r.id = 1 /\ r.name = S1 /\ r.address = <<"a">>
    /\ \E r \in db.store_books : r.store_id = 1 /\ r.book_id = 1 /\ r.copies > 3
    /\ AuthorRow(1, AX) \in db.authors
    /\ Cardinality(db.authors) > 1 /\ Cardinality(db.books) > 1

(* C27: in every persisted state, also after rows that failed and were     *)
(* rolled back, every Book's author_id is the id of a persisted Author and *)
(* every Inventory Position's store_id and book_id are the ids of a        *)
(* persisted Store and of a persisted Book.                                *)
C27_ReferentialIntegrity ==
    /\ \A b \in db.books : \E a \in db.authors : a.id = b.author_id
    /\ \A sb \in db.store_books :
          /\ \E r \in db.stores : r.id = sb.store_id
          /\ \E b \in db.books : b.id = sb.book_id

(* a row that had created its store failed on its price and was rolled     *)
(* back (the id it drew is lost, the store is not there), while another    *)
(* row of the same call committed a new book and its position              *)
C27_Witness ==
    \E c \in Calls :
       /\ pc[c] = "done" /\ db0 = SeedDb
       /\ \E n \in BegunBy(c) : ErrorsOf(c, n) # {} /\ DataOf(c, n).store_name = S2
       /\ StoreNamed(db, S2) = {}
       /\ seq.stores > Cardinality(db.stores)
       /\ \E n \in BegunBy(c) : <<c, n>> \in committed
       /\ Cardinality(db.books) > 1 /\ Cardinality(db.store_books) > 1

(* the quantities of the persisted rows are in range *)
QuantitiesInRange ==
    /\ \A sb \in db.store_books :
          isFinite(sb.price) /\ Val(sb.price) >= 0 /\ sb.copies >= 1
    /\ \A b \in db.books : b.pages = Null \/ (isFinite(b.pages) /\ Val(b.pages) >= 1)

(* no step lowers the copies of a persisted position *)
CopiesNeverDecrease ==
    \A old \in db.store_books : \A new \in db'.store_books :
       Key("store_books", new) = Key("store_books", old) => new.copies >= old.copies

(* C28: in every persisted state every Inventory Position has a            *)
(* non-negative price and copies >= 1 and every Book's pages is null or an *)
(* integer >= 1, and the copies of a position never decreases from one     *)
(* state to the next.                                                      *)
C28_QuantityInvariants == []QuantitiesInRange /\ [][CopiesNeverDecrease]_vars

(* the rows of call c whose transaction committed *)
CommittedBy(c) == {n \in BegunBy(c) : <<c, n>> \in committed}

(* every data record is in the result once: counted as processed or        *)
(* listed with its error; and processed counts the commits                 *)
RecordsAccounted(c) ==
    /\ parsed[c].totalParsed = Len(csv[c])
    /\ results[c].processed + Len(results[c].errors) = Len(csv[c])
    /\ \A n \in 2..(Len(csv[c]) + 1) :
          Cardinality(ErrorsOf(c, n)) + (IF n \in CommittedBy(c) THEN 1 ELSE 0) = 1
    /\ results[c].processed = Cardinality(CommittedBy(c))

(* C29: in the result processCSV returns, processed + |errors| is the      *)
(* number of data records parsed, each record being counted once;          *)
(* processed is the number of rows whose transaction committed; and        *)
(* processed = created.inventory + updated.inventory.                      *)
C29_EveryRecordAccounted ==
    \A c \in Calls :
       pc[c] = "done" =>
          /\ RecordsAccounted(c)
          /\ results[c].processed =
                results[c].created.inventory + results[c].updated.inventory

(* entry e of the errors of call c is a reconciliation error: its row's    *)
(* transaction was opened (a validation error is of a row that never       *)
(* reached processRow)                                                     *)
FromReconciliation(c, e) == e.row \in BegunBy(c)

(* C30: in the errors list of processCSV every validation error precedes   *)
(* every reconciliation error, within each group the errors come in        *)
(* ascending order of row ordinal, and every entry carries the ordinal of  *)
(* a data record of the file, that record's data and a reason.             *)
C30_ErrorsOrdered ==
    \A c \in Calls :
       Parsed(c) =>
          LET E == results[c].errors
          IN  /\ \A i, j \in 1..Len(E) :
                    i < j =>
                       /\ FromReconciliation(c, E[i]) => FromReconciliation(c, E[j])
                       /\ (FromReconciliation(c, E[i]) <=> FromReconciliation(c, E[j]))
                             => E[i].row < E[j].row
              /\ \A i \in 1..Len(E) :
                    /\ DOMAIN E[i] = {"row", "data", "error"}
                    /\ E[i].row \in 2..(Len(csv[c]) + 1)
                    /\ E[i].data = DataOf(c, E[i].row)
                    /\ E[i].error # Null /\ Len(E[i].error) > 0
                    /\ FromReconciliation(c, E[i]) <=> validateRow(E[i].data, E[i].row).valid

(* a call returned two errors: first the validation error of its row 3,    *)
(* then the reconciliation error of its row 2                              *)
C30_Witness ==
    \E c \in Calls :
       /\ pc[c] = "done" /\ Len(results[c].errors) = 2
       /\ results[c].errors[1].row = 3 /\ ~FromReconciliation(c, results[c].errors[1])
       /\ results[c].errors[2].row = 2 /\ FromReconciliation(c, results[c].errors[2])

====
